---- MODULE Spec2Model ----
(***************************************************************************)
(* A model of the core of qwp0905/no-db: the Page Cache with its MVCC      *)
(* version chains (src/src/buffer/cache.rs), the write-ahead log with its  *)
(* buffer, I/O loop and replay (src/src/wal/wal.rs, src/src/wal/buffer.rs) *)
(* and the B+tree Cursor (src/src/cursor/cursor.rs).                       *)
(*                                                                         *)
(* The module holds three specifications:                                  *)
(*   SpecCache   transactions reading and writing pages through the Page   *)
(*               Cache, the commit channel, and the flusher of the data    *)
(*               file;                                                     *)
(*   SpecWal     the log buffer, the WAL I/O loop, the checkpoint loop,    *)
(*               the WAL file, crash and replay;                           *)
(*   SpecCursor  Cursor.insert / get / commit over node pages.             *)
(* SpecCache and SpecWal share last_index, last_transaction and commit_c;  *)
(* apart from these each specification has its own variables and leaves    *)
(* those of the others unchanged.                                          *)
(***************************************************************************)
EXTENDS Integers, Sequences, FiniteSets, TLC

\* ------------------------------------------------------------------ bounds
\* Transaction ids handed out in one behaviour of SpecCache: 1..MaxTx.
MaxTx ==
  2
\* Data page indices used in SpecCache: 1..NumPages.
NumPages ==
  2
\* max_cache_size is drawn from 0..MaxCacheSize.
MaxCacheSize ==
  2
\* Page writes (CursorWriter.insert calls) one transaction makes in SpecCache.
MaxWrites ==
  2
\* Client threads using the write-ahead log in SpecWal.
NumClients ==
  2
\* Transaction ids handed out in one behaviour of SpecWal: 1..MaxWalTx.
MaxWalTx ==
  2
\* Insert records one transaction appends in SpecWal (its n-th Insert
\* writes page n).
MaxInserts ==
  1
\* WriteAheadLogConfig.max_file_size: WAL pages 0..MaxFileSize-1.
MaxFileSize ==
  2
\* WriteAheadLogConfig.max_buffer_size: buffered records that force a flush.
MaxBufferSize ==
  2
\* Records one LogEntry (one WAL page) has room for.
EntryCap ==
  2
\* Finder batch_write calls that fail in one behaviour of SpecWal.
MaxFailures ==
  1
\* Crashes (each followed by reopen and replay) in one behaviour of SpecWal.
MaxCrashes ==
  1
\* Checkpoint records the checkpoint loop sends in one behaviour of SpecWal.
MaxCheckpoints ==
  1
\* Keys the Cursor inserts in SpecCursor: 1..NumKeys, ordered as numbers.
NumKeys ==
  4
\* Values the Cursor inserts in SpecCursor: 1..NumValues.
NumValues ==
  2
\* MAX_NODE_LEN (cursor.rs 11): the keys a node holds without a split.
MAX_NODE_LEN ==
  2
\* Cursor.insert calls in one behaviour of SpecCursor.
MaxCursorInserts ==
  4
\* Cursor.insert calls that reach the tree in one behaviour of SpecTree.
MaxTreeInserts ==
  5
\* Cursors (transactions) opened in one behaviour of SpecCursor.
MaxCursors ==
  2
\* Cursor.commit calls on one Cursor in SpecCursor.
MaxCommitCalls ==
  2
\* Keys a Cursor inserts in SpecTree: 1 .. TreeKeys.
TreeKeys ==
  5
\* Finder::batch_write calls in one behaviour of SpecFinder.
NumWaiters ==
  3
\* FinderConfig.batch_size.
BatchSize ==
  2
\* Write and Flush commands the file fails in one behaviour of SpecFinder.
MaxIoFailures ==
  2

\* The Flush commands the I/O worker has run are counted modulo FlushWrap.
FlushWrap ==
  2

\* Requests made to one PageLocker.
NumLockers ==
  3

\* ---------------------------------------------------------------- variables
VARIABLES
  \* ---- SpecCache: PageCacheCore (cache.rs 11-16) and its environment
  cache,            \* LRUCache<usize, MVCC>: sequence of [index, mvcc], oldest first
  uncommitted,      \* HashMap<usize, HashSet<usize>>: tx_id -> page indices
  evicted,          \* HashMap<usize, MVCC>: index -> chain
  max_cache_size,   \* PageCacheCore.max_cache_size
  last_index,       \* WriteAheadLog.last_index (the LSN counter)
  last_transaction, \* LogBufferCore.last_transaction
  txState,          \* per tx_id: "none" | "open" | "closing" | "closed"
  snapshot,         \* per tx_id: last_index returned by new_transaction
  commitLsn,        \* per tx_id: LSN of its Commit record (0: none)
  txWrites,         \* per tx_id: Insert records buffered so far
  commit_c,         \* StoppableChannel<CommitInfo>: sequence of [tx_id, index]
  disk,             \* the data file: page index -> page
  diskLsn,          \* commit LSN of the version the data file holds, per page
  \* ---- SpecWal: LogBufferCore (buffer.rs 6-10), the I/O loop (wal.rs 391-436)
  map,              \* LogBufferCore.map: tx_id -> buffered records
  size,             \* LogBufferCore.size
  io_c,             \* requests to the I/O loop: sequence of [records, done, taken]
  current,          \* the I/O loop's LogEntry being filled
  cursor,           \* the I/O loop's WAL page cursor
  sealing,          \* TRUE while the I/O loop is in batch_write of a full entry
  file,             \* the WAL file: page index -> LogEntry (<< >>: never written)
  client,           \* per client thread: [tx, pc, n]
  fate,             \* per tx_id: "none" | "active" | "committing" (inside commit) |
                    \*   "ok" | "err" (commit returned) | "dropped" (given up) |
                    \*   "unknown" (crash inside commit)
  txInserts,        \* per tx_id: Insert records its caller appended
  insLsn,           \* per tx_id: LSN given to its Insert record (0: none)
  assigned,         \* every LSN the I/O loop assigned, in order
  ckptUpto,         \* greatest apply_upto of a Checkpoint record sent
  durable,          \* CommitInfo of the Commit records a batch_write has written
  overwritten,      \* greatest LSN of a record a later write replaced in the file
  failures,         \* failed batch_write calls so far
  crashes,          \* crashes so far
  checkpoints,      \* Checkpoint records sent so far
  replayed,         \* the last replay: [ok, read_error, found, from]
  issued,           \* the ids LogBuffer::new_transaction has handed out
  local,            \* per client thread: the records it holds on the way to io_c
  stamps,           \* per transaction: its records in the order they were given an index
  \* ---- SpecCursor: the Cursor (cursor.rs 14-19) and the pages it reads and writes
  store,            \* the committed pages: page index -> entry
  working,          \* the pages as the open Cursor's CursorWriter sees them
  next_free,        \* FreeList: the next page index acquire() hands out
  committed,        \* Cursor.committed, per Cursor 1..MaxCursors
  result,           \* what the last call on a Cursor returned: [cursor, op, res, reached]
  panicked,         \* the thread of the open Cursor has panicked
  inserted,         \* keys the open Cursor has inserted
  written,          \* key -> last value inserted, by committed Cursors and the open one
  expected,         \* key -> last value inserted by committed Cursors
  opened,           \* Cursors opened so far
  insertCalls,      \* Cursor.insert calls so far
  walCommits,       \* per Cursor: the Commit records its commit calls handed to the WAL
  \* ---- SpecFinder: the Finder (finder.rs 60-64) and its batcher
  batch_c,          \* Finder.batch_c: the batch_write calls not yet received
  wait,             \* the batcher's Vec of waiters (`v` in start_batch)
  replies,          \* per batch_write call: "none", "pending", "Ok" or "Err"
  executed,         \* calls whose Command::Write the I/O worker has executed
  flushed,          \* calls with a successful Command::Flush after their Write
  flushFailed,      \* calls that waited in a group whose Command::Flush failed
  ioFailures,       \* failed commands so far
  closed,           \* Finder::close has terminated the channels
  flushes,          \* Command::Flush runs of the I/O worker, modulo FlushWrap
  \* ---- SpecLock: one PageLocker (lock.rs 13-16) and the requests for it
  status,           \* PageLocker.status: [kind, count]
  blocked,          \* PageLocker.blocked: the requests refused, in push order
  holder,           \* per request: "idle", "read", "write" or "waiting"
  handed            \* the waiters the last release returned (<< >> for None)

\* Variables of SpecCache alone.
cacheVars ==
  << cache, uncommitted, evicted, max_cache_size, txState, snapshot, commitLsn,
     txWrites, disk, diskLsn >>

\* Variables SpecCache and SpecWal both use.
logVars ==
  << last_index, last_transaction, commit_c >>

\* Variables of SpecWal alone.
walVars ==
  << map, size, io_c, current, cursor, sealing, file, client, fate, txInserts,
     insLsn, assigned, ckptUpto, durable, overwritten, failures, crashes,
     checkpoints, replayed, issued, local, stamps >>

\* Variables of SpecCursor.
treeVars ==
  << store, working, next_free, committed, result, panicked, inserted, written,
     expected, opened, insertCalls, walCommits >>

\* Variables of SpecFinder.
finderVars ==
  << batch_c, wait, replies, executed, flushed, flushFailed, ioFailures,
     closed, flushes >>

\* Variables of SpecLock alone.
lockVars ==
  << status, blocked, holder, handed >>

vars ==
  << cacheVars, logVars, walVars, treeVars, finderVars, lockVars >>

\* ------------------------------------------------------------------ helpers
Pages ==
  1 .. NumPages

TxIds ==
  1 .. MaxTx

Max(S) ==
  CHOOSE x \in S : \A y \in S : y <= x

\* The positions of a sequence.
Positions(s) ==
  1 .. Len(s)

\* A sequence without its element at position i.
RemoveAt(s, i) ==
  [ j \in 1 .. (Len(s) - 1) |-> IF j < i THEN s[j] ELSE s[j + 1] ]

\* A function extended or overwritten at one point (HashMap::insert).
MapInsert(f, k, v) ==
  [ x \in (DOMAIN f) \cup {k} |-> IF x = k THEN v ELSE f[x] ]

\* A function without one point of its domain (HashMap::remove).
MapRemove(f, k) ==
  [ x \in (DOMAIN f) \ {k} |-> f[x] ]

EmptyMap ==
  [ x \in {} |-> 0 ]

\* ------------------------------------------------------------- MVCC chain
\* A chain is a sequence of versions [tx, ci, page]: ci is the commit index
\* or Uncommitted; page is the page content, identified in SpecCache by the
\* transaction that wrote it (0: the content the data file starts with).
Uncommitted ==
  -1

NoEntry ==
  [ tx |-> 0, ci |-> Uncommitted, page |-> 0 ]

\* The snapshot of a transaction, fixed by new_transaction.
Snapshot(tx_id) ==
  snapshot[tx_id]

\* The LSN the I/O loop published for tx_id's Commit record in CommitInfo.
CommitLsn(tx_id) ==
  commitLsn[tx_id]

\* view: the transaction's own uncommitted version if the chain holds one,
\* else the committed version with the greatest commit index <= snapshot
\* (the later one in the chain among equals), else NoEntry.
MvccView(chain, tx_id) ==
  LET own == { i \in Positions(chain) :
                 chain[i].tx = tx_id /\ chain[i].ci = Uncommitted }
      vis == { i \in Positions(chain) :
                 chain[i].ci # Uncommitted /\ chain[i].ci <= Snapshot(tx_id) }
      best == { i \in vis : \A j \in vis :
                 \/ chain[j].ci < chain[i].ci
                 \/ (chain[j].ci = chain[i].ci /\ j <= i) }
  IN  IF own # {} THEN chain[Max(own)]
      ELSE IF vis # {} THEN chain[CHOOSE i \in best : TRUE]
      ELSE NoEntry

\* append_uncommitted: at most one uncommitted version per tx_id and page.
MvccAppendUncommitted(chain, tx_id, page) ==
  IF \E i \in Positions(chain) : chain[i].tx = tx_id /\ chain[i].ci = Uncommitted
    THEN [ i \in Positions(chain) |->
             IF chain[i].tx = tx_id /\ chain[i].ci = Uncommitted
               THEN [ chain[i] EXCEPT !.page = page ]
               ELSE chain[i] ]
    ELSE Append(chain, [ tx |-> tx_id, ci |-> Uncommitted, page |-> page ])

\* append_committed: a committed version at the reader's snapshot.
MvccAppendCommitted(chain, tx_id, page) ==
  Append(chain, [ tx |-> tx_id, ci |-> Snapshot(tx_id), page |-> page ])

\* commit: promote tx_id's uncommitted version to its commit LSN.
MvccCommit(chain, tx_id) ==
  [ i \in Positions(chain) |->
      IF chain[i].tx = tx_id /\ chain[i].ci = Uncommitted
        THEN [ chain[i] EXCEPT !.ci = CommitLsn(tx_id) ]
        ELSE chain[i] ]

\* split_off(x): the versions of transactions below x are destroyed.
MvccSplitOff(chain, x) ==
  SelectSeq(chain, LAMBDA e : e.tx >= x)

MvccIsEmpty(chain) ==
  chain = << >>

\* ----------------------------------------------------------------- LRUCache
\* The cache is a sequence of [index, mvcc], least recently used first.
LruHas(c, index) ==
  \E i \in Positions(c) : c[i].index = index

LruPos(c, index) ==
  CHOOSE i \in Positions(c) : c[i].index = index

LruChain(c, index) ==
  c[LruPos(c, index)].mvcc

\* get: a hit becomes the most recently used entry.
LruTouch(c, index) ==
  IF LruHas(c, index)
    THEN Append(RemoveAt(c, LruPos(c, index)), c[LruPos(c, index)])
    ELSE c

\* entry(index).or_default(): the entry of index, created empty when absent,
\* as the most recently used one.
LruEntryOrDefault(c, index) ==
  IF LruHas(c, index)
    THEN LruTouch(c, index)
    ELSE Append(c, [ index |-> index, mvcc |-> << >> ])

\* get_mut(index).map(f): the chain of index replaced in place.
LruUpdate(c, index, chain) ==
  [ i \in Positions(c) |->
      IF c[i].index = index THEN [ c[i] EXCEPT !.mvcc = chain ] ELSE c[i] ]

\* The entry just produced by LruEntryOrDefault is the last one.
LruUpdateLast(c, chain) ==
  [ c EXCEPT ![Len(c)].mvcc = chain ]

\* ---------------------------------------------------------------- PageCache
\* CacheGet with the evicted chain's newest version returned as it stands,
\* view(tx_id) forgotten on that path.
CacheGet_EvictedUnviewed(c, ev, tx_id, index) ==
  IF LruHas(c, index)
    THEN MvccView(LruChain(c, index), tx_id)
    ELSE IF index \in DOMAIN ev /\ ev[index] # << >>
      THEN ev[index][Len(ev[index])]
      ELSE NoEntry

\* EvictOverflow evicting only once the cache exceeds max_cache_size.
EvictOverflow_LateThreshold(c, ev, max) ==
  IF Len(c) <= max + 1 \/ c = << >>
    THEN [ cache |-> c, evicted |-> ev ]
    ELSE [ cache |-> Tail(c),
           evicted |-> MapInsert(ev, Head(c).index, Head(c).mvcc) ]

\* PageCache::get (cache.rs 18-29): the version view(tx_id) selects in the
\* chain of `cache`, and only when `cache` has no chain in that of `evicted`.
CacheGet(c, ev, tx_id, index) ==
  IF LruHas(c, index)
    THEN MvccView(LruChain(c, index), tx_id)
    ELSE IF index \in DOMAIN ev
      THEN MvccView(ev[index], tx_id)
      ELSE NoEntry

\* The tail of insert_dirty and insert_from_disk (cache.rs 40-47, 58-65):
\* nothing when cache.len() < max_cache_size, else pop_old() and
\* evicted.insert(i, mvcc), which replaces a chain evicted holds for i.
EvictOverflow(c, ev, max) ==
  IF Len(c) < max \/ c = << >>
    THEN [ cache |-> c, evicted |-> ev ]
    ELSE [ cache |-> Tail(c),
           evicted |-> MapInsert(ev, Head(c).index, Head(c).mvcc) ]

\* PageCache::insert_dirty (cache.rs 31-48).
InsertDirty(tx_id, index, page) ==
  LET entry == LruEntryOrDefault(cache, index)
      chain == MvccAppendUncommitted(entry[Len(entry)].mvcc, tx_id, page)
      after == EvictOverflow(LruUpdateLast(entry, chain), evicted, max_cache_size)
  IN  /\ uncommitted' =
           MapInsert(uncommitted, tx_id,
             (IF tx_id \in DOMAIN uncommitted THEN uncommitted[tx_id] ELSE {})
               \cup {index})
      /\ cache' = after.cache
      /\ evicted' = after.evicted

\* PageCache::insert_from_disk (cache.rs 50-66), on the cache c a get left.
InsertFromDisk(c, tx_id, index, page) ==
  LET entry == LruEntryOrDefault(c, index)
      chain == MvccAppendCommitted(entry[Len(entry)].mvcc, tx_id, page)
      after == EvictOverflow(LruUpdateLast(entry, chain), evicted, max_cache_size)
  IN  /\ cache' = after.cache
      /\ evicted' = after.evicted

\* PageCache::commit (cache.rs 68-78).
CommitChains(c, indexes, tx_id) ==
  [ i \in Positions(c) |->
      IF c[i].index \in indexes
        THEN [ c[i] EXCEPT !.mvcc = MvccCommit(c[i].mvcc, tx_id) ]
        ELSE c[i] ]

CommitEvicted(ev, indexes, tx_id) ==
  [ x \in DOMAIN ev |->
      IF x \in indexes THEN MvccCommit(ev[x], tx_id) ELSE ev[x] ]

PageCacheCommit(tx_id) ==
  IF tx_id \notin DOMAIN uncommitted
    THEN UNCHANGED << cache, uncommitted, evicted >>
    ELSE /\ uncommitted' = MapRemove(uncommitted, tx_id)
         /\ cache' = CommitChains(cache, uncommitted[tx_id], tx_id)
         /\ evicted' = CommitEvicted(evicted, uncommitted[tx_id], tx_id)

\* PageCache::flush (cache.rs 80-91).
FlushCache(c, tx_id, index) ==
  IF LruHas(c, index)
    THEN LruUpdate(c, index, MvccSplitOff(LruChain(c, index), tx_id))
    ELSE c

FlushEvicted(ev, tx_id, index) ==
  IF index \notin DOMAIN ev
    THEN ev
    ELSE IF MvccIsEmpty(MvccSplitOff(ev[index], tx_id + 1))
      THEN MapRemove(ev, index)
      ELSE MapInsert(ev, index, MvccSplitOff(ev[index], tx_id + 1))

PageCacheFlush(tx_id, index) ==
  /\ cache' = FlushCache(cache, tx_id, index)
  /\ evicted' = FlushEvicted(evicted, tx_id, index)
  /\ UNCHANGED uncommitted

\* ------------------------------------------------------- SpecCache actions
\* -------------------------------------------------------------- tree pages
\* The pages the Cursor works on. Every page is a record [kind, keys,
\* children, v]: a TreeHeader has v = the root's page index; an
\* InternalNode has keys and children; a LeafNode has keys, the value page
\* of each key in children, and v = next (0: none); a value page has
\* v = the value.
HEADER_INDEX ==
  0

Header(root) ==
  [ kind |-> "header", keys |-> << >>, children |-> << >>, v |-> root ]

Internal(keys, children) ==
  [ kind |-> "internal", keys |-> keys, children |-> children, v |-> 0 ]

Leaf(keys, children, next) ==
  [ kind |-> "leaf", keys |-> keys, children |-> children, v |-> next ]

Value(v) ==
  [ kind |-> "value", keys |-> << >>, children |-> << >>, v |-> v ]

\* An empty tree: the header at page 0, an empty root leaf at page 1, and a
\* free list that hands out page 2 next; one Cursor is open.
InitTreeVars ==
  /\ store = (HEADER_INDEX :> Header(1)) @@ (1 :> Leaf(<< >>, << >>, 0))
  /\ working = (HEADER_INDEX :> Header(1)) @@ (1 :> Leaf(<< >>, << >>, 0))
  /\ next_free = 2
  /\ committed = [ c \in 1 .. MaxCursors |-> FALSE ]
  /\ result = [ cursor |-> 0, op |-> "none", res |-> "none", reached |-> FALSE ]
  /\ panicked = FALSE
  /\ inserted = {}
  /\ written = EmptyMap
  /\ expected = EmptyMap
  /\ opened = 1
  /\ insertCalls = 0
  /\ walCommits = [ c \in 1 .. MaxCursors |-> 0 ]

\* LockStatus (lock.rs 6-10).
Released ==
  [ kind |-> "Released", count |-> 0 ]

Read(count) ==
  [ kind |-> "Read", count |-> count ]

Write ==
  [ kind |-> "Write", count |-> 0 ]

\* PageLocker::new (lock.rs 23-28): Released, nobody blocked.
InitLockVars ==
  /\ status = Released
  /\ blocked = << >>
  /\ holder = [ r \in 1 .. NumLockers |-> "idle" ]
  /\ handed = << >>

\* Finder::open (finder.rs 66-75): both channels empty, no waiter.
InitFinderVars ==
  /\ batch_c = << >>
  /\ wait = << >>
  /\ replies = [ w \in 1 .. NumWaiters |-> "none" ]
  /\ executed = {}
  /\ flushed = {}
  /\ flushFailed = {}
  /\ ioFailures = 0
  /\ closed = FALSE
  /\ flushes = 0

\* The variables of SpecWal before WAL::open has run on an empty WAL file.
InitWalVars ==
  /\ map = EmptyMap
  /\ size = 0
  /\ io_c = << >>
  /\ current = << >>
  /\ cursor = 0
  /\ sealing = FALSE
  /\ file = [ i \in 0 .. MaxFileSize - 1 |-> << >> ]
  /\ client = [ c \in 1 .. NumClients |-> [ tx |-> 0, pc |-> "idle", n |-> 0 ] ]
  /\ fate = [ t \in 1 .. MaxWalTx |-> "none" ]
  /\ txInserts = [ t \in 1 .. MaxWalTx |-> 0 ]
  /\ insLsn = [ t \in 1 .. MaxWalTx |-> 0 ]
  /\ assigned = << >>
  /\ ckptUpto = 0
  /\ durable = {}
  /\ overwritten = 0
  /\ failures = 0
  /\ crashes = 0
  /\ checkpoints = 0
  /\ replayed = [ ok |-> TRUE, read_error |-> FALSE, found |-> 0, from |-> 0 ]
  /\ issued = << >>
  /\ local = [ c \in 1 .. NumClients |-> << >> ]
  /\ stamps = [ t \in 1 .. MaxWalTx |-> << >> ]

InitCache ==
  /\ InitWalVars
  /\ InitTreeVars
  /\ InitFinderVars
  /\ InitLockVars
  /\ cache = << >>
  /\ uncommitted = EmptyMap
  /\ evicted = EmptyMap
  /\ max_cache_size \in { MaxCacheSize - k : k \in 0 .. MaxCacheSize }
  /\ last_index = 0
  /\ last_transaction = 0
  /\ txState = [ t \in TxIds |-> "none" ]
  /\ snapshot = [ t \in TxIds |-> 0 ]
  /\ commitLsn = [ t \in TxIds |-> 0 ]
  /\ txWrites = [ t \in TxIds |-> 0 ]
  /\ commit_c = << >>
  /\ disk = [ p \in Pages |-> 0 ]
  /\ diskLsn = [ p \in Pages |-> 0 ]

\* WriteAheadLog::new_transaction (wal.rs 229-235) with
\* LogBuffer::new_transaction (buffer.rs 27-34): the next tx_id, and the
\* current last_index as the snapshot.
NewTransaction ==
  /\ last_transaction < MaxTx
  /\ last_transaction' = last_transaction + 1
  /\ txState' = [ txState EXCEPT ![last_transaction + 1] = "open" ]
  /\ snapshot' = [ snapshot EXCEPT ![last_transaction + 1] = last_index ]
  /\ UNCHANGED << cache, uncommitted, evicted, max_cache_size, last_index,
                  commitLsn, txWrites, commit_c, disk, diskLsn >>
  /\ UNCHANGED << walVars, treeVars, finderVars, lockVars >>

\* CursorWriter.insert: the page goes to the WAL buffer as an Insert record
\* and to the Page Cache as an uncommitted version of the transaction.
WriterInsert(tx, index) ==
  /\ txState[tx] = "open"
  /\ txWrites[tx] < MaxWrites
  /\ txWrites' = [ txWrites EXCEPT ![tx] = @ + 1 ]
  /\ InsertDirty(tx, index, tx)
  /\ UNCHANGED << max_cache_size, last_index, last_transaction, txState,
                  snapshot, commitLsn, commit_c, disk, diskLsn >>
  /\ UNCHANGED << walVars, treeVars, finderVars, lockVars >>

\* WriteAheadLog::commit (wal.rs 237-240) and the I/O loop's pass over the
\* batch (wal.rs 399-415): Start, the Insert records and Commit take the
\* next LSNs, and CommitInfo{tx, LSN of Commit} goes to the commit channel.
WalCommit(tx) ==
  /\ txState[tx] = "open"
  /\ txState' = [ txState EXCEPT ![tx] = "closing" ]
  /\ last_index' = last_index + txWrites[tx] + 2
  /\ commitLsn' = [ commitLsn EXCEPT ![tx] = last_index + txWrites[tx] + 2 ]
  /\ commit_c' = Append(commit_c,
                   [ tx_id |-> tx, index |-> last_index + txWrites[tx] + 2 ])
  /\ UNCHANGED << cache, uncommitted, evicted, max_cache_size,
                  last_transaction, snapshot, txWrites, disk, diskLsn >>
  /\ UNCHANGED << walVars, treeVars, finderVars, lockVars >>

\* The receiver of the commit channel: PageCache::commit for the next
\* CommitInfo.
CacheCommit ==
  /\ commit_c # << >>
  /\ PageCacheCommit(Head(commit_c).tx_id)
  /\ commit_c' = Tail(commit_c)
  /\ txState' = [ txState EXCEPT ![Head(commit_c).tx_id] = "closed" ]
  /\ UNCHANGED << max_cache_size, last_index, last_transaction, snapshot,
                  commitLsn, txWrites, disk, diskLsn >>
  /\ UNCHANGED << walVars, treeVars, finderVars, lockVars >>

\* The versions a commit promoted in the chains of index (a version loaded
\* from the data file carries another transaction's page).
Promoted(index) ==
  LET inCache == IF LruHas(cache, index)
                   THEN { LruChain(cache, index)[i] :
                            i \in Positions(LruChain(cache, index)) }
                   ELSE {}
      inEvicted == IF index \in DOMAIN evicted
                     THEN { evicted[index][i] : i \in Positions(evicted[index]) }
                     ELSE {}
  IN  { e \in inCache \cup inEvicted : e.ci # Uncommitted /\ e.page = e.tx }

\* The flusher: the newest committed version of a page, when newer than what
\* the data file holds, is written to the data file, and then
\* PageCache::flush(tx_id, index) is called for it.
FlushPage(index) ==
  /\ Promoted(index) # {}
  /\ LET e == CHOOSE x \in Promoted(index) :
                \A y \in Promoted(index) : y.ci <= x.ci
     IN  /\ e.ci > diskLsn[index]
         /\ disk' = [ disk EXCEPT ![index] = e.page ]
         /\ diskLsn' = [ diskLsn EXCEPT ![index] = e.ci ]
         /\ PageCacheFlush(e.tx, index)
  /\ UNCHANGED << max_cache_size, last_index, last_transaction, txState,
                  snapshot, commitLsn, txWrites, commit_c >>
  /\ UNCHANGED << walVars, treeVars, finderVars, lockVars >>

\* CursorWriter.get: PageCache::get, and on None the page of the data file,
\* installed by insert_from_disk at the transaction's snapshot. The page it
\* returns is WriterGetResult.
WriterGetResult(tx, index) ==
  IF CacheGet(cache, evicted, tx, index) # NoEntry
    THEN CacheGet(cache, evicted, tx, index).page
    ELSE disk[index]

WriterGet(tx, index) ==
  /\ txState[tx] = "open"
  /\ IF CacheGet(cache, evicted, tx, index) # NoEntry
       THEN /\ cache' = LruTouch(cache, index)
            /\ UNCHANGED evicted
       ELSE InsertFromDisk(LruTouch(cache, index), tx, index, disk[index])
  /\ UNCHANGED << uncommitted, max_cache_size, last_index, last_transaction,
                  txState, snapshot, commitLsn, txWrites, commit_c, disk,
                  diskLsn >>
  /\ UNCHANGED << walVars, treeVars, finderVars, lockVars >>

NextCache ==
  \/ NewTransaction
  \/ \E tx \in TxIds, index \in Pages : WriterInsert(tx, index)
  \/ \E tx \in TxIds : WalCommit(tx)
  \/ CacheCommit
  \/ \E index \in Pages : FlushPage(index)
  \/ \E tx \in TxIds, index \in Pages : WriterGet(tx, index)

SpecCache ==
  InitCache /\ [][NextCache]_vars

\* ------------------------------------------------------- SpecCache claims
\* The chain PageCache::get consults for index: that of `cache`, else that of
\* `evicted`, else none.
ConsultedChain(index) ==
  IF LruHas(cache, index)
    THEN LruChain(cache, index)
    ELSE IF index \in DOMAIN evicted THEN evicted[index] ELSE << >>

HasUncommittedOf(chain, tx) ==
  \E i \in Positions(chain) : chain[i].tx = tx /\ chain[i].ci = Uncommitted

\* C1: a get issued by an open transaction T never returns a page written by
\* a transaction whose Commit record got an LSN greater than T's snapshot,
\* also when the page comes from the data file through insert_from_disk.
C1_SnapshotIsolation ==
  \A tx \in TxIds, index \in Pages :
    txState[tx] = "open" =>
      LET w == WriterGetResult(tx, index)
      IN  ~ (w \in TxIds /\ w # tx /\ commitLsn[w] > snapshot[tx])

\* C8: every index listed in uncommitted[tx_id] has a chain, in `cache` or in
\* `evicted`, that holds an uncommitted version of tx_id.
C8_UncommittedVersionsKept ==
  \A tx \in DOMAIN uncommitted :
    \A index \in uncommitted[tx] :
      \/ LruHas(cache, index) /\ HasUncommittedOf(LruChain(cache, index), tx)
      \/ index \in DOMAIN evicted /\ HasUncommittedOf(evicted[index], tx)

\* C9: PageCache::get(tx_id, index) never returns an uncommitted version that
\* another transaction inserted, from `cache` or from `evicted`.
C9_NoForeignUncommitted ==
  \A tx \in TxIds, index \in Pages :
    LET e == CacheGet(cache, evicted, tx, index)
    IN  (e # NoEntry /\ e.ci = Uncommitted) => e.tx = tx

\* C9's case: an open transaction whose get returns a version from a chain in
\* `cache` that also holds another transaction's uncommitted version, and
\* likewise from a chain that lives in `evicted` only.
C9_Witness ==
  \E tx \in TxIds, i1 \in Pages, i2 \in Pages :
    /\ txState[tx] = "open"
    /\ LruHas(cache, i1)
    /\ \E o \in TxIds \ {tx} : HasUncommittedOf(LruChain(cache, i1), o)
    /\ CacheGet(cache, evicted, tx, i1) # NoEntry
    /\ ~ LruHas(cache, i2) /\ i2 \in DOMAIN evicted
    /\ \E o \in TxIds \ {tx} : HasUncommittedOf(evicted[i2], o)
    /\ CacheGet(cache, evicted, tx, i2) # NoEntry

\* C10: the LRU `cache` never holds more than max_cache_size chains.
C10_CacheBound ==
  Len(cache) <= max_cache_size

\* C10's case: an insertion has overflowed the cache and its victim went to
\* `evicted`, with max_cache_size at least 2 or with max_cache_size 0.
C10_Witness ==
  /\ DOMAIN evicted # {}
  /\ \/ max_cache_size >= 2 /\ Len(cache) = max_cache_size - 1
     \/ max_cache_size = 0

\* ===================================================================== WAL
\* -------------------------------------------------------------- log records
\* LogRecord: operation, transaction_id, index (the LSN, 0 until the I/O
\* loop assigns it) and the operation's argument (page_index of an Insert,
\* apply_upto of a Checkpoint).
NewStart(tx_id) ==
  [ op |-> "Start", tx |-> tx_id, index |-> 0, arg |-> 0 ]

NewInsert(tx_id, page_index) ==
  [ op |-> "Insert", tx |-> tx_id, index |-> 0, arg |-> page_index ]

NewCommit(tx_id) ==
  [ op |-> "Commit", tx |-> tx_id, index |-> 0, arg |-> 0 ]

NewCheckpoint(to_be_apply) ==
  [ op |-> "Checkpoint", tx |-> 0, index |-> 0, arg |-> to_be_apply ]

\* LogEntry::is_available: the entry has room for one more record.
IsAvailable(entry) ==
  Len(entry) < EntryCap

Min(S) ==
  CHOOSE x \in S : \A y \in S : x <= y

RECURSIVE Flatten(_, _)
\* BTreeMap::into_values().flatten(): the records of the transactions txs of
\* the map, in ascending tx_id.
Flatten(m, txs) ==
  IF txs = {} THEN << >>
  ELSE m[Min(txs)] \o Flatten(m, txs \ { Min(txs) })

\* ---------------------------------------------------------------- LogBuffer
\* Variant of the definition below: two Start records for the new id.
BufferNewTransaction_TwoStarts(m, tx_id) ==
  MapInsert(m, tx_id, << NewStart(tx_id), NewStart(tx_id) >>)

\* LogBuffer::new_transaction (buffer.rs 27-34): the map after the call.
BufferNewTransaction(m, tx_id) ==
  MapInsert(m, tx_id, << NewStart(tx_id) >>)

\* LogBuffer::append (buffer.rs 36-41): entry(tx_id).or_default().push(..).
BufferAppend(m, tx_id, page_index) ==
  MapInsert(m, tx_id,
            (IF tx_id \in DOMAIN m THEN m[tx_id] ELSE << >>)
              \o << NewInsert(tx_id, page_index) >>)

\* LogBuffer::commit (buffer.rs 43-49): the records handed to the I/O loop.
BufferCommit(m, tx_id) ==
  (IF tx_id \in DOMAIN m THEN m[tx_id] ELSE << >>) \o << NewCommit(tx_id) >>

\* LogBuffer::flush (buffer.rs 63-67): the records handed to the I/O loop.
BufferFlush(m) ==
  Flatten(m, DOMAIN m)

\* Variant of the definition below: the records are counted after the
\* Commit record was pushed.
BufferTaken_Pushed(m, tx_id) ==
  (IF tx_id \in DOMAIN m THEN m[tx_id] ELSE << >>) \o << NewCommit(tx_id) >>

\* The records LogBuffer::commit and LogBuffer::rollback take out of the map
\* (map.remove(&tx_id).unwrap_or_default()).
BufferTaken(m, tx_id) ==
  IF tx_id \in DOMAIN m THEN m[tx_id] ELSE << >>

\* ------------------------------------------------------------------- replay
\* A page whose bytes do not deserialize into a LogEntry.
Garbage ==
  << [ op |-> "Garbage", tx |-> 0, index |-> 0, arg |-> 0 ] >>

RECURSIVE ScanFrom(_, _)
\* replay (wal.rs 459-475): the records of the pages from `index` on, in
\* scan order, each with its page. Finder::read answers Err for a page that
\* is past the end of the file or all zero (finder.rs 32-41), and
\* `Err(_) => break` ends the scan; a page that does not deserialize is
\* passed over (`Err(_) => continue`).
ScanFrom(f, index) ==
  IF index >= MaxFileSize THEN << >>
  ELSE IF f[index] = << >> THEN << >>
  ELSE IF f[index] = Garbage THEN ScanFrom(f, index + 1)
  ELSE [ i \in 1 .. Len(f[index]) |-> [ page |-> index, rec |-> f[index][i] ] ]
         \o ScanFrom(f, index + 1)

RECURSIVE CursorScan(_, _, _, _)
\* replay (wal.rs 467-472): the cursor is the page of the last record whose
\* index is below that of the record scanned before it.
CursorScan(scan, i, cur, cursor_index) ==
  IF i > Len(scan) THEN cur
  ELSE CursorScan(scan, i + 1,
                  IF scan[i].rec.index < cursor_index THEN scan[i].page ELSE cur,
                  scan[i].rec.index)

\* records: BTreeMap<usize, LogRecord> (wal.rs 474): the record scanned last
\* under each index.
RecordAt(scan, lsn) ==
  scan[Max({ i \in 1 .. Len(scan) : scan[i].rec.index = lsn })].rec

\* Variant of the definition below: a Commit record commits its
\* transaction whether or not it is in `started`.
ReplayStep_CommitUnchecked(st, record) ==
  LET base == [ st EXCEPT
                  !.last_transaction = IF record.tx > @ THEN record.tx ELSE @,
                  !.last_index = IF record.index > @ THEN record.index ELSE @ ]
  IN  CASE record.op = "Start" ->
             [ base EXCEPT !.started = @ \cup { record.tx } ]
        [] record.op = "Commit" ->
             [ base EXCEPT !.started = @ \ { record.tx },
                           !.committed = @ \cup { record.tx } ]
        [] record.op = "Abort" ->
             IF record.tx \in base.started
               THEN [ base EXCEPT !.started = @ \ { record.tx },
                                  !.aborted = @ \cup { record.tx } ]
               ELSE base
        [] record.op = "Checkpoint" ->
             [ base EXCEPT !.inserts = { l \in @ : l >= record.arg },
                           !.started = {},
                           !.committed = {},
                           !.aborted = {} ]
        [] record.op = "Insert" ->
             [ base EXCEPT !.inserts = @ \cup { record.index } ]

\* replay (wal.rs 484-512): one record of the fold.
ReplayStep(st, record) ==
  LET base == [ st EXCEPT
                  !.last_transaction = IF record.tx > @ THEN record.tx ELSE @,
                  !.last_index = IF record.index > @ THEN record.index ELSE @ ]
  IN  CASE record.op = "Start" ->
             [ base EXCEPT !.started = @ \cup { record.tx } ]
        [] record.op = "Commit" ->
             IF record.tx \in base.started
               THEN [ base EXCEPT !.started = @ \ { record.tx },
                                  !.committed = @ \cup { record.tx } ]
               ELSE base
        [] record.op = "Abort" ->
             IF record.tx \in base.started
               THEN [ base EXCEPT !.started = @ \ { record.tx },
                                  !.aborted = @ \cup { record.tx } ]
               ELSE base
        [] record.op = "Checkpoint" ->
             [ base EXCEPT !.inserts = { l \in @ : l >= record.arg },
                           !.started = {},
                           !.committed = {},
                           !.aborted = {} ]
        [] record.op = "Insert" ->
             [ base EXCEPT !.inserts = @ \cup { record.index } ]

RECURSIVE ReplayFold(_, _, _)
\* replay (wal.rs 484): records.into_values(), ascending index.
ReplayFold(scan, lsns, st) ==
  IF lsns = {} THEN st
  ELSE ReplayFold(scan, lsns \ { Min(lsns) },
                  ReplayStep(st, RecordAt(scan, Min(lsns))))

\* replay (wal.rs 452-525): last_transaction, cursor and last_index as
\* returned, and the Insert records it classifies to_be_flush and
\* to_be_rollback.
Replay(f) ==
  LET scan == ScanFrom(f, 0)
      lsns == { scan[i].rec.index : i \in 1 .. Len(scan) }
      st == ReplayFold(scan, lsns,
              [ last_transaction |-> 0, last_index |-> 0, started |-> {},
                committed |-> {}, aborted |-> {}, inserts |-> {} ])
  IN  [ last_transaction |-> st.last_transaction,
        cursor |-> CursorScan(scan, 1, 0, 0),
        last_index |-> st.last_index,
        to_be_flush |-> { RecordAt(scan, l) : l \in
                            { x \in st.inserts :
                                RecordAt(scan, x).tx \in st.committed } },
        to_be_rollback |-> { RecordAt(scan, l) : l \in
                               { x \in st.inserts :
                                   RecordAt(scan, x).tx \notin st.committed } } ]

\* ------------------------------------------------------- WAL: client calls
Idle ==
  [ tx |-> 0, pc |-> "idle", n |-> 0 ]

\* done.must_send(result) (wal.rs 418, 424, 433) as the waiting caller sees
\* it: the checkpoint loop (done = 0) drops the answer; commit returns it;
\* new_transaction and append return Err by `?`, and the caller then gives
\* the transaction up.
Reply(done, ok) ==
  IF done = 0 THEN UNCHANGED << client, fate >>
  ELSE IF client[done].pc = "commit"
    THEN /\ client' = [ client EXCEPT ![done] = Idle ]
         /\ fate' = [ fate EXCEPT ![client[done].tx] =
                        IF ok THEN "ok" ELSE "err" ]
  ELSE IF ok
    THEN /\ client' = [ client EXCEPT ![done].pc = "open" ]
         /\ UNCHANGED fate
  ELSE /\ client' = [ client EXCEPT ![done] = Idle ]
       /\ fate' = [ fate EXCEPT ![client[done].tx] = "dropped" ]

\* The rest of the WAL variables, which no client call changes.
IoLoopVars ==
  << last_index, commit_c, current, cursor, sealing, file, assigned, ckptUpto,
     durable, overwritten, failures, crashes, checkpoints, replayed, stamps >>

\* WriteAheadLog::new_transaction (wal.rs 229-230) by client thread c:
\* LogBuffer::new_transaction, one critical section of the buffer's Mutex.
LogNewTransaction(c) ==
  /\ client[c].pc = "idle"
  /\ last_transaction < MaxWalTx
  /\ Len(issued) < MaxWalTx
  /\ last_transaction' = last_transaction + 1
  /\ map' = BufferNewTransaction(map, last_transaction + 1)
  /\ size' = size + 1
  /\ client' = [ client EXCEPT ![c] =
                   [ tx |-> last_transaction + 1, pc |-> "new_len", n |-> 0 ] ]
  /\ fate' = [ fate EXCEPT ![last_transaction + 1] = "active" ]
  /\ txInserts' = [ txInserts EXCEPT ![last_transaction + 1] = 0 ]
  /\ insLsn' = [ insLsn EXCEPT ![last_transaction + 1] = 0 ]
  /\ issued' = Append(issued, last_transaction + 1)
  /\ stamps' = [ stamps EXCEPT ![last_transaction + 1] = << >> ]
  /\ UNCHANGED << last_index, commit_c, io_c, local, current, cursor, sealing,
                  file, assigned, ckptUpto, durable, overwritten, failures,
                  crashes, checkpoints, replayed >>
  /\ UNCHANGED << cacheVars, treeVars, finderVars, lockVars >>

\* WriteAheadLog::append (wal.rs 221-222) by client thread c:
\* LogBuffer::append, one critical section of the buffer's Mutex.
LogAppend(c) ==
  /\ client[c].pc = "open"
  /\ client[c].n < MaxInserts
  /\ map' = BufferAppend(map, client[c].tx, client[c].n + 1)
  /\ size' = size + 1
  /\ client' = [ client EXCEPT ![c].pc = "append_len", ![c].n = @ + 1 ]
  /\ txInserts' = [ txInserts EXCEPT ![client[c].tx] = @ + 1 ]
  /\ UNCHANGED << last_transaction, io_c, local, fate, insLsn, issued >>
  /\ UNCHANGED IoLoopVars
  /\ UNCHANGED << cacheVars, treeVars, finderVars, lockVars >>

\* `if self.buffer.len() >= self.config.max_buffer_size` (wal.rs 223, 231):
\* LogBuffer::len (buffer.rs 59-61) takes the Mutex again; below the
\* threshold the call returns Ok.
LogLen(c) ==
  /\ client[c].pc \in { "new_len", "append_len" }
  /\ client' = [ client EXCEPT ![c].pc =
                   IF size < MaxBufferSize THEN "open"
                   ELSE IF client[c].pc = "new_len" THEN "new_flush"
                   ELSE "append_flush" ]
  /\ UNCHANGED << last_transaction, map, size, io_c, local, fate, txInserts,
                  insLsn, issued >>
  /\ UNCHANGED IoLoopVars
  /\ UNCHANGED << cacheVars, treeVars, finderVars, lockVars >>

\* self.buffer.flush() (wal.rs 224, 232; buffer.rs 63-67): the thread takes
\* every record of the buffer, in one more critical section.
LogFlush(c) ==
  /\ client[c].pc \in { "new_flush", "append_flush" }
  /\ local' = [ local EXCEPT ![c] = BufferFlush(map) ]
  /\ map' = EmptyMap
  /\ size' = 0
  /\ client' = [ client EXCEPT ![c].pc =
                   IF client[c].pc = "new_flush" THEN "new_send"
                   ELSE "append_send" ]
  /\ UNCHANGED << last_transaction, io_c, fate, txInserts, insLsn, issued >>
  /\ UNCHANGED IoLoopVars
  /\ UNCHANGED << cacheVars, treeVars, finderVars, lockVars >>

\* WriteAheadLog::commit (wal.rs 237-238) by client thread c:
\* LogBuffer::commit takes the transaction's records out of the buffer and
\* adds the Commit record.
LogCommit(c) ==
  /\ client[c].pc = "open"
  /\ local' = [ local EXCEPT ![c] = BufferCommit(map, client[c].tx) ]
  /\ map' = MapRemove(map, client[c].tx)
  /\ size' = size - Len(BufferTaken(map, client[c].tx))
  /\ client' = [ client EXCEPT ![c].pc = "commit_send" ]
  /\ fate' = [ fate EXCEPT ![client[c].tx] = "committing" ]
  /\ UNCHANGED << last_transaction, io_c, txInserts, insLsn, issued >>
  /\ UNCHANGED IoLoopVars
  /\ UNCHANGED << cacheVars, treeVars, finderVars, lockVars >>

\* self.io_c.send_with_done(records) (wal.rs 224, 232, 239): the records
\* the thread holds go to the I/O loop, and the thread waits for the answer
\* (must_recv). `taken` keeps the records that came out of the buffer.
LogSend(c) ==
  /\ client[c].pc \in { "new_send", "append_send", "commit_send" }
  /\ io_c' = Append(io_c,
       [ records |-> local[c], done |-> c,
         taken |-> IF client[c].pc = "commit_send"
                     THEN SubSeq(local[c], 1, Len(local[c]) - 1)
                     ELSE local[c] ])
  /\ local' = [ local EXCEPT ![c] = << >> ]
  /\ client' = [ client EXCEPT ![c].pc =
                   IF client[c].pc = "new_send" THEN "new"
                   ELSE IF client[c].pc = "append_send" THEN "append"
                   ELSE "commit" ]
  /\ UNCHANGED << last_transaction, map, size, fate, txInserts, insLsn, issued >>
  /\ UNCHANGED IoLoopVars
  /\ UNCHANGED << cacheVars, treeVars, finderVars, lockVars >>

\* LogBuffer::rollback (buffer.rs 51-57) by client thread c, which gives its
\* transaction up without calling commit.
LogRollback(c) ==
  /\ client[c].pc = "open"
  /\ map' = MapRemove(map, client[c].tx)
  /\ size' = size - Len(BufferTaken(map, client[c].tx))
  /\ client' = [ client EXCEPT ![c] = Idle ]
  /\ fate' = [ fate EXCEPT ![client[c].tx] = "dropped" ]
  /\ UNCHANGED << last_index, last_transaction, commit_c, io_c, current, cursor,
                  sealing, file, txInserts, insLsn, assigned, ckptUpto, durable,
                  overwritten, failures, crashes, checkpoints, replayed, issued, local, stamps >>
  /\ UNCHANGED << cacheVars, treeVars, finderVars, lockVars >>

\* WriteAheadLog::start_checkpoint (wal.rs 202-219): the flusher answered
\* Some(to_be_apply), and a Checkpoint record goes to the I/O loop.
StartCheckpoint(to_be_apply) ==
  /\ checkpoints < MaxCheckpoints
  /\ checkpoints' = checkpoints + 1
  /\ io_c' = Append(io_c, [ records |-> << NewCheckpoint(to_be_apply) >>,
                            done |-> 0, taken |-> << >> ])
  /\ ckptUpto' = IF to_be_apply > ckptUpto THEN to_be_apply ELSE ckptUpto
  /\ UNCHANGED << last_index, last_transaction, commit_c, map, size, current,
                  cursor, sealing, file, client, fate, txInserts, insLsn,
                  assigned, durable, overwritten, failures, crashes, replayed, issued, local, stamps >>
  /\ UNCHANGED << cacheVars, treeVars, finderVars, lockVars >>

\* ------------------------------------------------------- WAL: the I/O loop
\* Finder::batch_write(cursor, entry) returning Ok (wal.rs 408, 423): the
\* page of the WAL file holds the entry.
WriteEntry(entry) ==
  /\ file' = [ file EXCEPT ![cursor] = entry ]
  /\ durable' = durable \cup
       { [ tx_id |-> entry[i].tx, index |-> entry[i].index ] :
           i \in { j \in 1 .. Len(entry) : entry[j].op = "Commit" } }
  /\ overwritten' =
       Max({ overwritten } \cup
           { file[cursor][i].index :
               i \in { j \in 1 .. Len(file[cursor]) :
                         \A k \in 1 .. Len(entry) : entry[k] # file[cursor][j] } })

\* The record the I/O loop is at, with its index assigned (wal.rs 400-401).
Indexed ==
  [ Head(Head(io_c).records) EXCEPT !.index = last_index + 1 ]

\* io_c without the record the I/O loop is at.
RecordDone ==
  [ io_c EXCEPT ![1].records = Tail(@) ]

\* wal.rs 399-406, 413-415: the next record of the batch takes index
\* last_index + 1, a Commit record sends its CommitInfo, and with room in
\* `current` the record is appended and last_index incremented; without
\* room the loop goes into batch_write of the full entry, holding the write
\* lock of last_index.
IoRecord ==
  /\ io_c # << >>
  /\ ~ sealing
  /\ Head(io_c).records # << >>
  /\ assigned' = Append(assigned, last_index + 1)
  /\ stamps' = IF Indexed.tx = 0 THEN stamps
               ELSE [ stamps EXCEPT ![Indexed.tx] = Append(@, Indexed) ]
  /\ commit_c' = IF Indexed.op = "Commit"
                   THEN Append(commit_c, [ tx_id |-> Indexed.tx,
                                           index |-> Indexed.index ])
                   ELSE commit_c
  /\ insLsn' = IF Indexed.op = "Insert"
                 THEN [ insLsn EXCEPT ![Indexed.tx] = Indexed.index ]
                 ELSE insLsn
  /\ IF IsAvailable(current)
       THEN /\ current' = Append(current, Indexed)
            /\ last_index' = last_index + 1
            /\ io_c' = RecordDone
            /\ UNCHANGED sealing
       ELSE /\ sealing' = TRUE
            /\ UNCHANGED << current, last_index, io_c >>
  /\ UNCHANGED << last_transaction, map, size, cursor, file, client, fate,
                  txInserts, ckptUpto, durable, overwritten, failures, crashes,
                  checkpoints, replayed, issued, local >>
  /\ UNCHANGED << cacheVars, treeVars, finderVars, lockVars >>

\* A cursor that runs past the last page of the file.
AdvanceCursor_NoWrap(c) ==
  c + 1

\* wal.rs 411: cursor.add(1).rem_euclid(max_file_size).
AdvanceCursor(c) ==
  (c + 1) % MaxFileSize

\* wal.rs 407-415: batch_write of the full entry returned Ok; the cursor
\* moves on (wrapping at max_file_size) and the record opens a new entry.
IoSealOk ==
  /\ sealing
  /\ WriteEntry(current)
  /\ cursor' = AdvanceCursor(cursor)
  /\ current' = << Indexed >>
  /\ last_index' = last_index + 1
  /\ io_c' = RecordDone
  /\ sealing' = FALSE
  /\ UNCHANGED << last_transaction, commit_c, map, size, client, fate,
                  txInserts, insLsn, assigned, ckptUpto, failures, crashes,
                  checkpoints, replayed, issued, local, stamps >>
  /\ UNCHANGED << cacheVars, treeVars, finderVars, lockVars >>

\* wal.rs 407-410, 417-420: batch_write of the full entry returned Err; the
\* entry taken out of `current` is gone, the rest of the batch is dropped,
\* last_index is not incremented and the caller gets Err.
IoSealFail ==
  /\ sealing
  /\ failures < MaxFailures
  /\ failures' = failures + 1
  /\ current' = << >>
  /\ Reply(Head(io_c).done, FALSE)
  /\ io_c' = Tail(io_c)
  /\ sealing' = FALSE
  /\ UNCHANGED << last_index, last_transaction, commit_c, map, size, cursor,
                  file, txInserts, insLsn, assigned, ckptUpto, durable,
                  overwritten, crashes, checkpoints, replayed, issued, local, stamps >>
  /\ UNCHANGED << cacheVars, treeVars, finderVars, lockVars >>

\* wal.rs 422-433: the batch is through; batch_write of `current` at the
\* cursor returned Ok and the caller gets Ok.
IoFinalOk ==
  /\ io_c # << >>
  /\ ~ sealing
  /\ Head(io_c).records = << >>
  /\ WriteEntry(current)
  /\ Reply(Head(io_c).done, TRUE)
  /\ io_c' = Tail(io_c)
  /\ UNCHANGED << last_index, last_transaction, commit_c, map, size, current,
                  cursor, sealing, txInserts, insLsn, assigned, ckptUpto,
                  failures, crashes, checkpoints, replayed, issued, local, stamps >>
  /\ UNCHANGED << cacheVars, treeVars, finderVars, lockVars >>

\* wal.rs 422-426: batch_write of `current` returned Err and the caller gets
\* Err; `current` keeps its records.
IoFinalFail ==
  /\ io_c # << >>
  /\ ~ sealing
  /\ Head(io_c).records = << >>
  /\ failures < MaxFailures
  /\ failures' = failures + 1
  /\ Reply(Head(io_c).done, FALSE)
  /\ io_c' = Tail(io_c)
  /\ UNCHANGED << last_index, last_transaction, commit_c, map, size, current,
                  cursor, sealing, file, txInserts, insLsn, assigned, ckptUpto,
                  durable, overwritten, crashes, checkpoints, replayed, issued, local, stamps >>
  /\ UNCHANGED << cacheVars, treeVars, finderVars, lockVars >>

\* ----------------------------------------------------- WAL: crash and open
\* The pages whose read fails during one replay: none, or one page.
ReadErrors ==
  { {} } \cup { { i } : i \in 0 .. MaxFileSize - 1 }

\* The WAL file as replay reads it when Finder::read fails with an I/O
\* error on the pages in `bad`: `Err(_) => break` (wal.rs 466) ends the
\* scan there, as at a page that was never written.
ReadWith(f, bad) ==
  [ i \in DOMAIN f |-> IF i \in bad THEN << >> ELSE f[i] ]

\* The scan reaches a page of `bad`: every page before it was read.
ReadFailed(f, bad) ==
  \E i \in bad : \A j \in 0 .. i - 1 : ReadWith(f, bad)[j] # << >>

\* The transaction ids of the records a scan has loaded.
FoundIds(scan) ==
  { scan[i].rec.tx : i \in 1 .. Len(scan) }

\* What replay returns to WAL::open (wal.rs 524): Ok on every path.
ReplayOk(f, bad) ==
  TRUE

\* The process dies and WAL::open (wal.rs 351-449) runs again: buffer, I/O
\* loop and channels start empty, and replay of the WAL file gives
\* last_transaction (buffer.initial_state), the cursor and last_index. A
\* caller inside commit never learns its outcome; the other transactions
\* in progress are gone. The pages in `bad` fail to read.
CrashReopen(bad) ==
  /\ crashes < MaxCrashes
  /\ crashes' = crashes + 1
  /\ map' = EmptyMap
  /\ size' = 0
  /\ io_c' = << >>
  /\ commit_c' = << >>
  /\ current' = << >>
  /\ sealing' = FALSE
  /\ cursor' = Replay(ReadWith(file, bad)).cursor
  /\ last_index' = Replay(ReadWith(file, bad)).last_index
  /\ last_transaction' = Replay(ReadWith(file, bad)).last_transaction
  /\ replayed' = [ ok |-> ReplayOk(file, bad),
                   read_error |-> ReadFailed(file, bad),
                   found |-> Max({ 0 } \cup
                                 FoundIds(ScanFrom(ReadWith(file, bad), 0))),
                   from |-> Len(issued) ]
  /\ UNCHANGED issued
  /\ client' = [ c \in 1 .. NumClients |-> Idle ]
  /\ fate' = [ t \in 1 .. MaxWalTx |->
                 IF fate[t] = "committing" THEN "unknown"
                 ELSE IF fate[t] = "active" THEN "dropped"
                 ELSE fate[t] ]
  /\ local' = [ c \in 1 .. NumClients |-> << >> ]
  /\ UNCHANGED << file, txInserts, insLsn, assigned, ckptUpto, durable,
                  overwritten, failures, checkpoints, stamps >>
  /\ UNCHANGED << cacheVars, treeVars, finderVars, lockVars >>

\* The variables of SpecCache alone, unused in SpecWal.
InitCacheVars ==
  /\ cache = << >>
  /\ uncommitted = EmptyMap
  /\ evicted = EmptyMap
  /\ max_cache_size = 0
  /\ txState = [ t \in TxIds |-> "none" ]
  /\ snapshot = [ t \in TxIds |-> 0 ]
  /\ commitLsn = [ t \in TxIds |-> 0 ]
  /\ txWrites = [ t \in TxIds |-> 0 ]
  /\ disk = [ p \in Pages |-> 0 ]
  /\ diskLsn = [ p \in Pages |-> 0 ]

\* WAL::open on an empty WAL file: replay finds nothing. Every other
\* component is in its state after construction, so the specifications of
\* the Cursor, the Finder and the PageLocker start here as well.
InitWal ==
  /\ InitWalVars
  /\ InitCacheVars
  /\ InitTreeVars
  /\ InitFinderVars
  /\ InitLockVars
  /\ last_index = 0
  /\ last_transaction = 0
  /\ commit_c = << >>

NextWal ==
  \/ \E c \in 1 .. NumClients : LogNewTransaction(c)
  \/ \E c \in 1 .. NumClients : LogAppend(c)
  \/ \E c \in 1 .. NumClients : LogLen(c)
  \/ \E c \in 1 .. NumClients : LogFlush(c)
  \/ \E c \in 1 .. NumClients : LogCommit(c)
  \/ \E c \in 1 .. NumClients : LogSend(c)
  \/ \E c \in 1 .. NumClients : LogRollback(c)
  \/ \E to_be_apply \in 0 .. last_index + 1 : StartCheckpoint(to_be_apply)
  \/ IoRecord
  \/ IoSealOk
  \/ IoSealFail
  \/ IoFinalOk
  \/ IoFinalFail
  \/ \E bad \in ReadErrors : CrashReopen(bad)

SpecWal ==
  InitWal /\ [][NextWal]_vars

\* --------------------------------------------------------- claims: the WAL
\* replay of the WAL file as it is now classifies the Insert record of tx
\* to_be_flush.
Reinstated(tx) ==
  \E r \in Replay(file).to_be_flush : r.tx = tx /\ r.index = insLsn[tx]

\* The Insert record of tx has an LSN below the apply_upto of a Checkpoint
\* record that was sent.
Covered(tx) ==
  insLsn[tx] # 0 /\ insLsn[tx] < ckptUpto

\* C2: once commit(tx) has returned Ok, replay of the WAL file, at any later
\* point, reinstates the Insert record of tx unless a Checkpoint covers it.
C2_CommittedIsReinstated ==
  \A tx \in 1 .. MaxWalTx :
    (fate[tx] = "ok" /\ txInserts[tx] > 0) => (Covered(tx) \/ Reinstated(tx))

\* C3: when commit(tx) returned Err, or tx was given up or lost in a crash
\* before commit was called, replay of the WAL file reinstates no Insert
\* record of tx.
C3_FailedIsNotReinstated ==
  \A tx \in 1 .. MaxWalTx :
    fate[tx] \in { "active", "err", "dropped" } =>
      ~ \E r \in Replay(file).to_be_flush : r.tx = tx

\* C5: every CommitInfo on the commit channel is that of a Commit record a
\* successful batch_write has written, and no CommitInfo is there for a
\* transaction whose commit returned Err.
C5_PublishAfterDurable ==
  \A i \in 1 .. Len(commit_c) :
    /\ commit_c[i] \in durable
    /\ fate[commit_c[i].tx_id] # "err"

\* C6: the LSNs the I/O loop assigns are strictly increasing, over failed
\* writes and over crash and reopen.
C6_LsnStrictlyIncreasing ==
  \A i, j \in 1 .. Len(assigned) : i < j => assigned[i] < assigned[j]

\* The Checkpoint records the WAL file holds.
DurableCheckpoints ==
  UNION { { file[p][i] : i \in { j \in 1 .. Len(file[p]) :
                                   file[p][j].op = "Checkpoint" } } :
            p \in 0 .. MaxFileSize - 1 }

\* The cursor has wrapped and the entries written since replaced records of
\* the oldest pages (with no failed write and no crash before, a write
\* replaces records only after a wrap), all of them below the apply_upto of
\* the Checkpoint record k.
WrappedUnder(k) ==
  /\ failures = 0
  /\ crashes = 0
  /\ overwritten > 0
  /\ overwritten < k.arg

\* C7: after the cursor wrapped over pages that a Checkpoint record of the
\* WAL file covers, replay still reinstates the Insert record of every
\* transaction whose commit returned Ok and that this Checkpoint does not
\* cover.
C7_WrapKeepsCommitted ==
  \A k \in DurableCheckpoints :
    WrappedUnder(k) =>
      \A tx \in 1 .. MaxWalTx :
        (fate[tx] = "ok" /\ txInserts[tx] > 0 /\ insLsn[tx] >= k.arg)
          => Reinstated(tx)

\* ================================================================== Cursor
\* ------------------------------------------------------------------- nodes
\* Vec::insert(p, x): x becomes the element at 0-based position p.
VecInsert(s, p, x) ==
  SubSeq(s, 1, p) \o << x >> \o SubSeq(s, p + 1, Len(s))

\* The keys of a node that are below, or not above, a key.
KeysBelow(node, key) ==
  Cardinality({ i \in 1 .. Len(node.keys) : node.keys[i] < key })

KeysNotAbove(node, key) ==
  Cardinality({ i \in 1 .. Len(node.keys) : node.keys[i] <= key })

\* LeafNode::find: the position of the key in the leaf, 0 for None.
LeafFind(node, key) ==
  IF \E i \in 1 .. Len(node.keys) : node.keys[i] = key
    THEN CHOOSE i \in 1 .. Len(node.keys) : node.keys[i] = key
    ELSE 0

\* LeafNode::add: the leaf with (key, pi) at its place in key order.
LeafAdd(node, key, pi) ==
  Leaf(VecInsert(node.keys, KeysBelow(node, key), key),
       VecInsert(node.children, KeysBelow(node, key), pi), node.v)

\* What LeafNode::add returns: the leaf's minimum key when the insert
\* changed it, 0 for None.
LeafAddLeftmost(node, key) ==
  IF KeysBelow(node, key) = 0 THEN key ELSE 0

\* LeafNode::split(current, ni): the lower half stays, with next = ni; the
\* upper half is the new leaf; the separator is the first key of the upper
\* half.
LeafSplit(node, ni) ==
  LET mid == Len(node.keys) \div 2
      n == Len(node.keys)
  IN  [ lower |-> Leaf(SubSeq(node.keys, 1, mid),
                       SubSeq(node.children, 1, mid), ni),
        upper |-> Leaf(SubSeq(node.keys, mid + 1, n),
                       SubSeq(node.children, mid + 1, n), node.v),
        s |-> node.keys[mid + 1] ]

\* InternalNode::next: the child whose range holds the key (the keys not
\* above it are left of that child); 0 when `children` has no such position
\* (the index is out of bounds and the thread panics).
InternalNext(node, key) ==
  IF KeysNotAbove(node, key) + 1 <= Len(node.children)
    THEN node.children[KeysNotAbove(node, key) + 1]
    ELSE 0

\* InternalNode::add(s, ni): separator s at its place in key order, and the
\* new child right of it.
InternalAdd(node, s, ni) ==
  Internal(VecInsert(node.keys, KeysBelow(node, s), s),
           VecInsert(node.children, KeysBelow(node, s) + 1, ni))

\* InternalNode::split: the middle key moves up; the keys and children right
\* of it make the new node.
InternalSplit(node) ==
  LET mid == Len(node.keys) \div 2
      n == Len(node.keys)
  IN  [ lower |-> Internal(SubSeq(node.keys, 1, mid),
                           SubSeq(node.children, 1, mid + 1)),
        upper |-> Internal(SubSeq(node.keys, mid + 2, n),
                           SubSeq(node.children, mid + 2, Len(node.children))),
        s |-> node.keys[mid + 1] ]

\* Results of get_index and get: a page index or value, or one of these.
NotFound ==
  0

Panic ==
  -1

RECURSIVE Descend(_, _, _)
\* Cursor::get_index (cursor.rs 83-96) from page `index` on, with
\* CursorEntry::find_or_next: the value page of the key, NotFound at a leaf
\* without it, Panic when a node has no child for it.
Descend(pg, index, key) ==
  IF pg[index].kind = "internal"
    THEN IF InternalNext(pg[index], key) = 0 THEN Panic
         ELSE Descend(pg, InternalNext(pg[index], key), key)
  ELSE IF LeafFind(pg[index], key) = 0 THEN NotFound
  ELSE pg[index].children[LeafFind(pg[index], key)]

GetIndex(pg, key) ==
  Descend(pg, pg[HEADER_INDEX].v, key)

\* Cursor::get (cursor.rs 35-45) on the pages pg: the value of the key.
CursorGet(pg, key) ==
  IF GetIndex(pg, key) \in { NotFound, Panic } THEN GetIndex(pg, key)
  ELSE pg[GetIndex(pg, key)].v

\* ---------------------------------------------------------------- append_at
\* What append_at returns: Ok((s, i)), a split with separator s and new page
\* i; Err(oi), no split, with oi the leaf's new leftmost key (0 for None);
\* or the thread panicked.
Split(s, i) ==
  [ kind |-> "split", s |-> s, i |-> i ]

NoSplit(oi) ==
  [ kind |-> "nosplit", s |-> oi, i |-> 0 ]

Panicked ==
  [ kind |-> "panic", s |-> 0, i |-> 0 ]

\* append_at on a leaf (cursor.rs 132-153): pg the pages, nf the next free
\* page index.
AppendAtLeaf(pg, nf, cur, key, value) ==
  LET node == pg[cur]
      added == LeafAdd(node, key, nf)
      halves == LeafSplit(added, nf + 1)
  IN  IF LeafFind(node, key) # 0
        THEN [ pg |-> MapInsert(pg, node.children[LeafFind(node, key)], Value(value)),
               nf |-> nf, res |-> NoSplit(0) ]
      ELSE IF Len(added.keys) <= MAX_NODE_LEN
        THEN [ pg |-> MapInsert(MapInsert(pg, nf, Value(value)), cur, added),
               nf |-> nf + 1, res |-> NoSplit(LeafAddLeftmost(node, key)) ]
      ELSE [ pg |-> MapInsert(MapInsert(MapInsert(pg, nf, Value(value)),
                                        nf + 1, halves.upper),
                              cur, halves.lower),
             nf |-> nf + 2, res |-> Split(halves.s, nf + 1) ]

\* append_at on an internal node, after the call on child i returned r
\* (cursor.rs 111-130). On Err(Some(s)) the code runs
\* node.keys.insert(i - 1, s) with i the page index of the child:
\* Vec::insert panics when i - 1 exceeds the length of keys.
AppendAtInternal(node, cur, i, r) ==
  LET added == InternalAdd(node, r.res.s, r.res.i)
      halves == InternalSplit(added)
  IN  IF r.res.kind = "panic" THEN r
      ELSE IF r.res.kind = "split"
        THEN IF Len(added.keys) <= MAX_NODE_LEN
               THEN [ pg |-> MapInsert(r.pg, cur, added), nf |-> r.nf,
                      res |-> NoSplit(0) ]
               ELSE [ pg |-> MapInsert(MapInsert(r.pg, r.nf, halves.upper),
                                       cur, halves.lower),
                      nf |-> r.nf + 1, res |-> Split(halves.s, r.nf) ]
      ELSE IF r.res.s = 0 THEN [ r EXCEPT !.res = NoSplit(0) ]
      ELSE IF i - 1 > Len(node.keys) THEN [ r EXCEPT !.res = Panicked ]
      ELSE [ pg |-> MapInsert(r.pg, cur,
                      Internal(VecInsert(node.keys, i - 1, r.res.s),
                               node.children)),
             nf |-> r.nf, res |-> NoSplit(0) ]

RECURSIVE AppendAt(_, _, _, _, _)
\* Cursor::append_at (cursor.rs 98-155).
AppendAt(pg, nf, cur, key, value) ==
  IF pg[cur].kind = "internal"
    THEN IF InternalNext(pg[cur], key) = 0
           THEN [ pg |-> pg, nf |-> nf, res |-> Panicked ]
           ELSE AppendAtInternal(pg[cur], cur, InternalNext(pg[cur], key),
                  AppendAt(pg, nf, InternalNext(pg[cur], key), key, value))
    ELSE AppendAtLeaf(pg, nf, cur, key, value)

\* Cursor::insert that takes a new value page for a key it has found.
InsertResult_NewValuePage(pg, nf, key, value) ==
  LET r == AppendAt(pg, nf, pg[HEADER_INDEX].v, key, value)
  IN  IF GetIndex(pg, key) = Panic
        THEN [ pg |-> pg, nf |-> nf, panic |-> TRUE ]
      ELSE IF GetIndex(pg, key) # NotFound
        THEN [ pg |-> MapInsert(pg, nf, Value(value)), nf |-> nf + 1,
               panic |-> FALSE ]
      ELSE IF r.res.kind = "panic"
        THEN [ pg |-> r.pg, nf |-> r.nf, panic |-> TRUE ]
      ELSE IF r.res.kind = "split"
        THEN [ pg |-> MapInsert(
                        MapInsert(r.pg, r.nf,
                          Internal(<< r.res.s >>,
                                   << pg[HEADER_INDEX].v, r.res.i >>)),
                        HEADER_INDEX, Header(r.nf)),
               nf |-> r.nf + 1, panic |-> FALSE ]
      ELSE [ pg |-> r.pg, nf |-> r.nf, panic |-> FALSE ]

\* Cursor::insert (cursor.rs 47-74) on the pages pg: the pages and the free
\* list after the call, and whether the thread panicked.
InsertResult(pg, nf, key, value) ==
  LET r == AppendAt(pg, nf, pg[HEADER_INDEX].v, key, value)
  IN  IF GetIndex(pg, key) = Panic
        THEN [ pg |-> pg, nf |-> nf, panic |-> TRUE ]
      ELSE IF GetIndex(pg, key) # NotFound
        THEN [ pg |-> MapInsert(pg, GetIndex(pg, key), Value(value)),
               nf |-> nf, panic |-> FALSE ]
      ELSE IF r.res.kind = "panic"
        THEN [ pg |-> r.pg, nf |-> r.nf, panic |-> TRUE ]
      ELSE IF r.res.kind = "split"
        THEN [ pg |-> MapInsert(
                        MapInsert(r.pg, r.nf,
                          Internal(<< r.res.s >>,
                                   << pg[HEADER_INDEX].v, r.res.i >>)),
                        HEADER_INDEX, Header(r.nf)),
               nf |-> r.nf + 1, panic |-> FALSE ]
      ELSE [ pg |-> r.pg, nf |-> r.nf, panic |-> FALSE ]

\* ----------------------------------------------------------- Cursor actions
\* Variants of definitions below.
\* Closed for a Cursor whose flag is never read.
Closed_Never(c) ==
  FALSE

\* self.committed.load(Ordering::SeqCst) (cursor.rs 39, 51).
Closed(c) ==
  committed[c]

\* The Cursors a call can be made on: the one opened last, unless its thread
\* has panicked, and the committed ones before it.
Callable(c) ==
  /\ c <= opened
  /\ c = opened => ~ panicked
  /\ c < opened => committed[c]

\* What a call returned: res is "Ok", "NotFound", "TransactionClosed" or
\* "Panic"; reached tells whether the call got to the CursorWriter.
Returned(c, op, res) ==
  [ cursor |-> c, op |-> op, res |-> res, reached |-> res # "TransactionClosed" ]

\* Cursor::insert(key, value) on Cursor c (cursor.rs 47-74), with at most
\* `calls` calls reaching the tree in one behaviour.
InsertWithin(calls, c, key, value) ==
  /\ Callable(c)
  /\ IF Closed(c)
       THEN /\ result' = Returned(c, "insert", "TransactionClosed")
            /\ UNCHANGED << working, next_free, panicked, inserted, written,
                            insertCalls >>
       ELSE /\ insertCalls < calls
            /\ insertCalls' = insertCalls + 1
            /\ \E r \in { InsertResult(working, next_free, key, value) } :
                 /\ working' = r.pg
                 /\ next_free' = r.nf
                 /\ panicked' = r.panic
                 /\ result' = Returned(c, "insert",
                                       IF r.panic THEN "Panic" ELSE "Ok")
                 /\ IF r.panic
                      THEN UNCHANGED << inserted, written >>
                      ELSE /\ inserted' = inserted \cup { key }
                           /\ written' = MapInsert(written, key, value)
  /\ UNCHANGED << store, committed, expected, opened, walCommits >>
  /\ UNCHANGED << cacheVars, logVars, walVars, finderVars, lockVars >>

\* Cursor::get(key) on Cursor c (cursor.rs 35-45).
CursorGetCall(c, key) ==
  /\ Callable(c)
  /\ IF Closed(c)
       THEN /\ result' = Returned(c, "get", "TransactionClosed")
            /\ UNCHANGED panicked
       ELSE /\ result' = Returned(c, "get",
                           IF CursorGet(working, key) = Panic THEN "Panic"
                           ELSE IF CursorGet(working, key) = NotFound
                             THEN "NotFound"
                           ELSE "Ok")
            /\ panicked' = (CursorGet(working, key) = Panic)
  /\ UNCHANGED << store, working, next_free, committed, inserted, written,
                  expected, opened, insertCalls, walCommits >>
  /\ UNCHANGED << cacheVars, logVars, walVars, finderVars, lockVars >>

\* Cursor::commit on Cursor c (cursor.rs 76-80): CursorWriter::commit makes
\* the pages of the Cursor the committed ones and forwards commit(tx_id) to
\* the WAL, where LogBuffer::commit (buffer.rs 43-49) adds a Commit record to
\* whatever the buffer holds for the transaction; then the flag is set. The
\* code does not read the flag here: on a committed Cursor
\* CursorWriter::commit runs again, with no page left to commit.
CursorCommit(c) ==
  /\ Callable(c)
  /\ walCommits[c] < MaxCommitCalls
  /\ LET records == BufferCommit(EmptyMap, c)
     IN  walCommits' = [ walCommits EXCEPT ![c] =
           @ + Cardinality({ i \in 1 .. Len(records) :
                               records[i].op = "Commit" }) ]
  /\ committed' = [ committed EXCEPT ![c] = TRUE ]
  /\ result' = Returned(c, "commit", "Ok")
  /\ IF committed[c]
       THEN UNCHANGED << store, expected >>
       ELSE /\ store' = working
            /\ expected' = written
  /\ UNCHANGED << working, next_free, panicked, inserted, written, opened,
                  insertCalls >>
  /\ UNCHANGED << cacheVars, logVars, walVars, finderVars, lockVars >>

\* Cursor::new (cursor.rs 21-33) for the next transaction, once the Cursor
\* before it has committed or its thread has panicked: it sees the
\* committed pages.
CursorNew ==
  /\ committed[opened] \/ panicked
  /\ opened < MaxCursors
  /\ opened' = opened + 1
  /\ panicked' = FALSE
  /\ working' = store
  /\ inserted' = {}
  /\ written' = expected
  /\ UNCHANGED << store, next_free, committed, result, expected, insertCalls,
                  walCommits >>
  /\ UNCHANGED << cacheVars, logVars, walVars, finderVars, lockVars >>

NextCursor ==
  \/ \E c \in 1 .. MaxCursors, key \in 1 .. NumKeys, value \in 1 .. NumValues :
       InsertWithin(MaxCursorInserts, c, key, value)
  \/ \E c \in 1 .. MaxCursors, key \in 1 .. NumKeys : CursorGetCall(c, key)
  \/ \E c \in 1 .. MaxCursors : CursorCommit(c)
  \/ CursorNew

SpecCursor ==
  InitWal /\ [][NextCursor]_vars

\* ------------------------------------------------------ claims: the Cursor
\* C4: a Cursor opened after a commit gets, for every key inserted by the
\* committed Cursors, the last value inserted for it.
C4_CommittedInsertsFound ==
  (~ committed[opened] /\ ~ panicked /\ inserted = {}) =>
    \A key \in DOMAIN expected : CursorGet(working, key) = expected[key]

\* ------------------------------------------- claims: the Page Cache, chains
\* A version of the chain of `index` that keeps the chain needed: an
\* uncommitted version of a transaction that has not committed, or a version
\* a commit promoted that the data file does not hold yet. (A version loaded
\* from the data file carries the page of another transaction or the
\* initial page.)
NeededVersion(index, e) ==
  \/ e.ci = Uncommitted /\ txState[e.tx] \in { "open", "closing" }
  \/ e.ci # Uncommitted /\ e.page = e.tx /\ e.ci > diskLsn[index]

\* C11: every chain of `evicted` holds an uncommitted version of a
\* transaction that has not committed or a committed version that is not
\* flushed yet.
C11_EvictedChainsNeeded ==
  \A index \in DOMAIN evicted :
    \E i \in Positions(evicted[index]) : NeededVersion(index, evicted[index][i])

\* The commit indexes of the committed versions of a chain, in chain order.
CommittedIndexes(chain) ==
  LET kept == SelectSeq(chain, LAMBDA e : e.ci # Uncommitted)
  IN  [ i \in 1 .. Len(kept) |-> kept[i].ci ]

\* The chains of the Page Cache, of `cache` and of `evicted`.
AllChains ==
  { cache[i].mvcc : i \in Positions(cache) } \cup
  { evicted[index] : index \in DOMAIN evicted }

\* C12: in every chain the committed versions are in strictly increasing
\* commit-index order.
C12_CommittedIncreasing ==
  \A chain \in AllChains :
    \A i, j \in Positions(CommittedIndexes(chain)) :
      i < j => CommittedIndexes(chain)[i] < CommittedIndexes(chain)[j]

\* ------------------------------------------------- Cursor: Open and Closed
\* A step that is a get or insert call on Cursor c.
CalledOn(c) ==
  /\ result' # result
  /\ result'.cursor = c
  /\ result'.op \in { "get", "insert" }

\* C13: once commit() has returned Ok on a Cursor, the Cursor stays Closed
\* for good, and every later get or insert on it returns TransactionClosed
\* without reaching the CursorWriter and without changing any page.
C13_ClosedIsTerminal ==
  [][ \A c \in 1 .. MaxCursors :
        committed[c] =>
          /\ committed'[c]
          /\ CalledOn(c) =>
               /\ result'.res = "TransactionClosed"
               /\ ~ result'.reached
               /\ UNCHANGED << working, store, next_free >> ]_vars

\* A get or insert on a committed Cursor has returned TransactionClosed.
C13_Witness ==
  /\ result.res = "TransactionClosed"
  /\ result.op \in { "get", "insert" }
  /\ committed[result.cursor]

\* ------------------------------------------------------- the tree of a Cursor
\* One Cursor inserting into an empty tree: any sequence of Cursor::insert
\* calls (cursor.rs 47-74).
NextTree ==
  \E key \in 1 .. TreeKeys, value \in 1 .. NumValues :
    InsertWithin(MaxTreeInserts, 1, key, value)

SpecTree ==
  InitWal /\ [][NextTree]_vars

RECURSIVE SubtreeKeys(_, _)
\* The keys held by the leaves below page `index`.
SubtreeKeys(pg, index) ==
  IF pg[index].kind = "internal"
    THEN UNION { SubtreeKeys(pg, pg[index].children[i]) :
                 i \in 1 .. Len(pg[index].children) }
    ELSE { pg[index].keys[i] : i \in 1 .. Len(pg[index].keys) }

\* An internal node with one more child than keys, each key above the keys
\* of the child left of it and not above those of the child right of it.
Separates(pg, node) ==
  /\ Len(node.children) = Len(node.keys) + 1
  /\ \A i \in 1 .. Len(node.keys) :
       /\ \A k \in SubtreeKeys(pg, node.children[i]) : k < node.keys[i]
       /\ \A k \in SubtreeKeys(pg, node.children[i + 1]) : node.keys[i] <= k

\* The pages of pg that hold a node of kind `kind`.
NodePages(pg, kind) ==
  { p \in DOMAIN pg : pg[p].kind = kind }

\* C14: after any sequence of Cursor.insert calls every internal node has
\* one more child than keys, and its keys separate its children.
C14_InternalNodesSeparate ==
  ~ panicked =>
    \A p \in NodePages(working, "internal") : Separates(working, working[p])

\* The pages an insert has persisted: those that are new or differ.
Persisted(before, after) ==
  { p \in DOMAIN after : p \notin DOMAIN before \/ after[p] # before[p] }

\* C15: after a Cursor.insert that returns Ok, every node page persisted by
\* it, leaf or internal, has at most MAX_NODE_LEN keys.
C15_PersistedNodesBounded ==
  [][ (insertCalls' # insertCalls /\ ~ panicked') =>
        \A p \in Persisted(working, working') :
          working'[p].kind \in { "leaf", "internal" } =>
            Len(working'[p].keys) <= MAX_NODE_LEN ]_vars

\* ------------------------------------------------------------------ Finder
\* Variants of definitions below.
\* FlushCompleted for a batcher that does not look at the result of Flush.
FlushCompleted_Ignored(ok) ==
  TRUE

\* `if let Err(_) = c.send_await(Command::Flush) { return false; }`
\* (finder.rs 128-130): whether the batcher goes on to complete the waiters.
FlushCompleted(ok) ==
  ok

\* ioFailures after a step that ran the commands with the given outcomes;
\* the file fails at most MaxIoFailures commands.
CountFailures(outcomes) ==
  ioFailures + Cardinality({ i \in 1 .. Len(outcomes) : ~ outcomes[i] })

\* ioFailures after the commands with the given outcomes, counted up to
\* MaxIoFailures.
Failures(outcomes) ==
  IF CountFailures(outcomes) > MaxIoFailures THEN MaxIoFailures
  ELSE CountFailures(outcomes)

\* The waiters of a Vec, as a set.
Waiters(group) ==
  { group[i] : i \in 1 .. Len(group) }

\* The end of the batcher's callback (finder.rs 128-133) with `group` the
\* waiters in `v`: Command::Flush, and on success every waiter is sent Ok
\* and the Vec is drained; on failure the callback returns with the Vec as
\* it is.
FlushGroup(group, ok) ==
  /\ flushes' = (flushes + 1) % FlushWrap
  /\ flushed' = IF ok THEN executed' ELSE flushed
  /\ flushFailed' = IF ok THEN flushFailed ELSE flushFailed \cup Waiters(group)
  /\ IF FlushCompleted(ok)
       THEN /\ wait' = << >>
            /\ replies' = [ w \in 1 .. NumWaiters |->
                         IF w \in Waiters(group) THEN "Ok" ELSE replies[w] ]
       ELSE /\ wait' = group
            /\ UNCHANGED replies

\* Finder::batch_write (finder.rs 154-156): the call is sent on batch_c and
\* its caller waits for the reply.
BatchWrite(w) ==
  /\ replies[w] = "none"
  /\ replies' = [ replies EXCEPT ![w] = "pending" ]
  /\ ~ closed
  /\ batch_c' = Append(batch_c, w)
  /\ UNCHANGED << wait, executed, flushed, flushFailed, ioFailures, closed,
                  flushes >>
  /\ UNCHANGED << cacheVars, logVars, walVars, treeVars, lockVars >>

\* The batcher's callback on a received call (finder.rs 115-133, o = Some):
\* Command::Write is executed by the I/O worker (finder.rs 44-48); a failed
\* Write is answered to its caller alone; otherwise the waiter joins the Vec
\* and, with batch_size waiters in it, the group is flushed.
ReceiveWithin(bounded, writeOk, flushOk) ==
  /\ ~ closed
  /\ batch_c # << >>
  /\ batch_c' = Tail(batch_c)
  /\ IF ~ writeOk
       THEN /\ (bounded => CountFailures(<< writeOk >>) <= MaxIoFailures)
            /\ replies' = [ replies EXCEPT ![Head(batch_c)] = "Err" ]
            /\ ioFailures' = Failures(<< writeOk >>)
            /\ UNCHANGED << wait, executed, flushed, flushFailed, flushes >>
       ELSE /\ executed' = executed \cup { Head(batch_c) }
            /\ IF Len(wait) + 1 < BatchSize
                 THEN /\ wait' = Append(wait, Head(batch_c))
                      /\ UNCHANGED << replies, flushed, flushFailed, ioFailures,
                                      flushes >>
                 ELSE /\ (bounded => CountFailures(<< flushOk >>) <= MaxIoFailures)
                      /\ FlushGroup(Append(wait, Head(batch_c)), flushOk)
                      /\ ioFailures' = Failures(<< flushOk >>)
  /\ UNCHANGED closed
  /\ UNCHANGED << cacheVars, logVars, walVars, treeVars, lockVars >>

\* The batcher's callback when batch_delay has elapsed (finder.rs 128-133,
\* o = None): the waiters in the Vec, if any, are flushed.
TimerWithin(bounded, flushOk) ==
  /\ ~ closed
  /\ (bounded => CountFailures(<< flushOk >>) <= MaxIoFailures)
  /\ UNCHANGED << batch_c, executed, closed >>
  /\ FlushGroup(wait, flushOk)
  /\ ioFailures' = Failures(<< flushOk >>)
  /\ UNCHANGED << cacheVars, logVars, walVars, treeVars, lockVars >>

NextFinder ==
  \/ \E w \in 1 .. NumWaiters : BatchWrite(w)
  \/ \E writeOk \in BOOLEAN, flushOk \in BOOLEAN :
       ReceiveWithin(TRUE, writeOk, flushOk)
  \/ \E flushOk \in BOOLEAN : TimerWithin(TRUE, flushOk)

SpecFinder ==
  InitWal /\ [][NextFinder]_vars

\* C16: a batch_write call is answered Ok only after its Write was executed
\* by the I/O worker and a Flush issued after that Write has succeeded.
C16_OkAfterFsync ==
  \A w \in 1 .. NumWaiters :
    replies[w] = "Ok" => w \in executed /\ w \in flushed

\* A call answered Ok after the Flush of its group had failed once.
C16_Witness ==
  \E w \in 1 .. NumWaiters : replies[w] = "Ok" /\ w \in flushFailed

\* C17: when the Flush of a group fails, every waiter of the group is
\* answered with an error: none is left pending, none is later answered Ok.
C17_FailedFsyncFailsGroup ==
  \A w \in flushFailed : replies[w] = "Err"

\* -------------------------------------------- claims: WAL errors and ids
\* The record is held by the LogBuffer map m.
Held(m, record) ==
  \E t \in DOMAIN m : \E i \in 1 .. Len(m[t]) : m[t][i] = record

\* C18: when the WAL I/O of an append, new_transaction or commit fails, the
\* call returns Err and the LogBuffer still holds every record it held
\* before the I/O was attempted.
C18_FailedIoKeepsBuffer ==
  [][ (failures' # failures /\ Head(io_c).done # 0) =>
        /\ fate'[client[Head(io_c).done].tx] \in { "err", "dropped" }
        /\ \A i \in 1 .. Len(Head(io_c).taken) :
             Held(map', Head(io_c).taken[i]) ]_vars

\* C19: a replay that met a file-level I/O error while reading a WAL page
\* does not return Ok.
C19_ReadErrorFailsOpen ==
  replayed.read_error => ~ replayed.ok

\* Start records for transaction tx_id in a sequence of records.
StartsIn(records, tx_id) ==
  Cardinality({ i \in 1 .. Len(records) :
                  records[i].op = "Start" /\ records[i].tx = tx_id })

\* Start records for transaction tx_id that the buffer m holds, or that the
\* call has just sent to the I/O loop in the flush at its end.
StartsBuffered(m, before, after, tx_id) ==
  (IF tx_id \in DOMAIN m THEN StartsIn(m[tx_id], tx_id) ELSE 0) +
  (IF after # before THEN StartsIn(after[Len(after)].taken, tx_id) ELSE 0)

EmitRank(record) ==
  CASE record.op = "Start" -> 0
    [] record.op = "Insert" -> record.arg
    [] OTHER -> MaxInserts + 1

\* C21: the LSNs given to the records of one transaction follow the order
\* in which the transaction emitted them: Start, its Inserts, Commit.
C21_LsnFollowsEmission ==
  \A tx \in 1 .. MaxWalTx :
    \A i, j \in 1 .. Len(stamps[tx]) :
      EmitRank(stamps[tx][i]) < EmitRank(stamps[tx][j]) =>
        stamps[tx][i].index < stamps[tx][j].index

\* --------------------------------------------- claims: one Commit per Cursor
\* C22: over any sequence of Cursor calls a transaction hands at most one
\* Commit record to the WAL: commit() on a Closed Cursor forwards nothing.
C22_OneCommitRecord ==
  \A c \in 1 .. MaxCursors : walCommits[c] <= 1

\* ------------------------------------------------------- replay of any log
\* LogRecord with Operation::Abort (wal.rs 497).
NewAbort(tx_id) ==
  [ op |-> "Abort", tx |-> tx_id, index |-> 0, arg |-> 0 ]

\* The records replay may meet as the next one of a log.
LogRecords ==
  { NewStart(t) : t \in 1 .. MaxWalTx } \cup
  { NewCommit(t) : t \in 1 .. MaxWalTx } \cup
  { NewAbort(t) : t \in 1 .. MaxWalTx } \cup
  { NewInsert(t, 1) : t \in 1 .. MaxWalTx } \cup
  { NewCheckpoint(k) : k \in 0 .. last_index + 1 }

\* A WAL file as WAL::open may find it (wal.rs 459-475): the record with
\* the next index stands in any page that has room for it, so the pages
\* need not hold the indexes in page order. The file is written before
\* WAL::open runs.
WriteLog(p, record) ==
  /\ crashes = 0
  /\ file[p] # Garbage
  /\ Len(file[p]) < EntryCap
  /\ file' = [ file EXCEPT ![p] =
                 Append(@, [ record EXCEPT !.index = last_index + 1 ]) ]
  /\ last_index' = last_index + 1
  /\ UNCHANGED << last_transaction, commit_c >>
  /\ UNCHANGED << map, size, io_c, current, cursor, sealing, client, fate,
                  txInserts, insLsn, assigned, ckptUpto, durable, overwritten,
                  failures, crashes, checkpoints, replayed, issued, local,
                  stamps >>
  /\ UNCHANGED << cacheVars, treeVars, finderVars, lockVars >>

\* A WAL file with a page that does not deserialize.
GarblePage(p) ==
  /\ crashes = 0
  /\ file[p] = << >>
  /\ file' = [ file EXCEPT ![p] = Garbage ]
  /\ UNCHANGED << last_index, last_transaction, commit_c >>
  /\ UNCHANGED << map, size, io_c, current, cursor, sealing, client, fate,
                  txInserts, insLsn, assigned, ckptUpto, durable, overwritten,
                  failures, crashes, checkpoints, replayed, issued, local,
                  stamps >>
  /\ UNCHANGED << cacheVars, treeVars, finderVars, lockVars >>

NextReplay ==
  \/ \E p \in 0 .. MaxFileSize - 1, record \in LogRecords : WriteLog(p, record)
  \/ \E p \in 0 .. MaxFileSize - 1 : GarblePage(p)
  \/ \E bad \in ReadErrors : CrashReopen(bad)

SpecReplay ==
  InitWal /\ [][NextReplay]_vars

\* The records replay loads from the file, under their indexes.
Loaded(f) ==
  LET scan == ScanFrom(f, 0)
  IN  { RecordAt(scan, l) : l \in { scan[i].rec.index : i \in 1 .. Len(scan) } }

\* The reference fold: the Insert records to be applied and those to be
\* rolled back. lastCheckpoint is the index of the last Checkpoint record,
\* 0 without one. Transaction tx is in `started` when the fold reaches index
\* l if, of its Start, Commit and Abort records after the last Checkpoint
\* and before l, the last one is a Start; it is in `committed` after the
\* fold if it was started at a Commit record of its own after the last
\* Checkpoint. The fold retains the Insert records for which no later
\* Checkpoint has an apply_upto above their index.
ReferenceFold(f) ==
  LET records == Loaded(f)
      lastCheckpoint ==
        Max({ 0 } \cup { r.index : r \in { x \in records : x.op = "Checkpoint" } })
      startedAt(tx, l) ==
        \E s \in records :
          /\ s.op = "Start" /\ s.tx = tx
          /\ s.index < l /\ s.index > lastCheckpoint
          /\ \A r \in records :
               (r.tx = tx /\ r.op \in { "Commit", "Abort" } /\ r.index < l)
                 => r.index < s.index
      committedAfter(tx) ==
        \E c \in records :
          /\ c.op = "Commit" /\ c.tx = tx
          /\ c.index > lastCheckpoint
          /\ startedAt(tx, c.index)
      kept == { r \in records :
                  /\ r.op = "Insert"
                  /\ \A k \in records :
                       (k.op = "Checkpoint" /\ k.index > r.index)
                         => r.index >= k.arg }
      done == { t \in 1 .. MaxWalTx : committedAfter(t) }
  IN  [ to_be_flush |-> { r \in kept : r.tx \in done },
        to_be_rollback |-> { r \in kept : r.tx \notin done } ]

\* C23: replay classifies the Insert records of every log as the reference
\* fold does: Start adds to started, Commit and Abort count only for a
\* started transaction, a Checkpoint drops the Inserts below its apply_upto
\* and clears the sets, and an Insert is applied iff its transaction is
\* committed at the end.
C23_ReplayIsReferenceFold ==
  LET code == Replay(file)
      reference == ReferenceFold(file)
  IN  /\ code.to_be_flush = reference.to_be_flush
      /\ code.to_be_rollback = reference.to_be_rollback

\* A log with a Checkpoint record, replayed, with an Insert to be applied.
C23_Witness ==
  /\ crashes = 1
  /\ DurableCheckpoints # {}
  /\ Replay(file).to_be_flush # {}

\* C24: replay goes through every page slot of the WAL file: an empty slot
\* or one that does not deserialize is passed over, and the records of
\* every readable slot after it are loaded.
C24_EverySlotExamined ==
  (crashes = 1 /\ ~ replayed.read_error) =>
    \A p \in { q \in DOMAIN file : file[q] # << >> /\ file[q] # Garbage } :
      \A i \in 1 .. Len(file[p]) : file[p][i] \in Loaded(file)

\* The records of page p that were written since the cursor came to p: a
\* record written at the cursor has an index above every index handed out
\* before, so above every record of the other pages.
ThisLap(p) ==
  { file[p][i] : i \in { j \in 1 .. Len(file[p]) :
      \A q \in DOMAIN file \ { p } :
        \A k \in 1 .. Len(file[q]) : file[q][k].index < file[p][j].index } }

\* C25: a write of the page at the cursor holds every record written to
\* that page since the cursor last advanced: while the cursor stays, no
\* write takes such a record off the disk, also after a batch that failed
\* while sealing the entry.
C25_WriteKeepsPage ==
  [][ ( /\ crashes = 0
        /\ crashes' = 0
        /\ cursor' = cursor
        /\ file'[cursor] # file[cursor] ) =>
      \A record \in ThisLap(cursor) :
        \E i \in 1 .. Len(file'[cursor]) : file'[cursor][i] = record ]_vars

\* C26: in the I/O loop the cursor is always a page index of the file; it
\* changes only to the next page, wrapping, and only right after the full
\* entry was written because the next record did not fit; a write at the
\* end of a batch and a failed write leave it where it is.
C26_CursorRotates ==
  /\ [] (cursor \in 0 .. MaxFileSize - 1)
  /\ [][ (crashes' = crashes /\ cursor' # cursor) =>
           /\ cursor' = AdvanceCursor(cursor)
           /\ sealing
           /\ ~ sealing'
           /\ Len(current) = EntryCap
           /\ file'[cursor] = current
           /\ failures' = failures ]_vars
  /\ [][ (failures' # failures \/ (~ sealing /\ file' # file)) =>
           cursor' = cursor ]_vars

\* The cursor went through every page of the file and is back at page 0.
C26_Witness ==
  /\ crashes = 0
  /\ cursor = 0
  /\ \A p \in DOMAIN file : file[p] # << >>

\* ------------------------------------------ claims: the Page Cache, eviction
\* C27: insert_dirty and insert_from_disk evict only when, after the
\* insertion, the cache holds more than max_cache_size chains; then exactly
\* one chain, the least recently used, goes from `cache` to `evicted` with
\* all its versions. The victims of a step are the indexes whose chain
\* `cache` held before it and no longer holds after it.
C27_EvictOnlyOnOverflow ==
  [][ LET victims == { index \in Pages :
                         LruHas(cache, index) /\ ~ LruHas(cache', index) }
      IN  victims # {} =>
            /\ Len(cache') + 1 > max_cache_size
            /\ victims = { Head(cache).index }
            /\ evicted'[Head(cache).index] = Head(cache).mvcc ]_vars

\* C29: no page index has a chain in `cache` and one in `evicted`: an insert
\* for an index whose chain lives in `evicted` starts no second chain in
\* `cache`.
C29_OneChainPerIndex ==
  \A index \in Pages : ~ (LruHas(cache, index) /\ index \in DOMAIN evicted)

\* ------------------------------------------- claims: the Cursor, overwrite
\* C28: Cursor.insert(k, v) for a key k found in the tree writes the value
\* page k maps to and nothing else: no page index is acquired from the free
\* list and no node page and no Tree Header page is written. The steps
\* looked at are the inserts of (key, value) that returned Ok for a key
\* get_index found in the tree.
C28_OverwriteWritesValuePage ==
  [][ \A key \in 1 .. NumKeys, value \in 1 .. NumValues :
        ( /\ insertCalls' = insertCalls + 1
          /\ ~ panicked'
          /\ GetIndex(working, key) \notin { NotFound, Panic }
          /\ key \in DOMAIN written'
          /\ written' = MapInsert(written, key, value) ) =>
          /\ next_free' = next_free
          /\ DOMAIN working' = DOMAIN working
          /\ working'[GetIndex(working, key)] = Value(value)
          /\ Persisted(working, working') \subseteq { GetIndex(working, key) } ]_vars

\* An insert has replaced the value of a key that an earlier Cursor
\* committed.
C28_Witness ==
  /\ result.op = "insert"
  /\ result.res = "Ok"
  /\ ~ panicked
  /\ \E key \in DOMAIN written \cap DOMAIN expected :
       /\ written[key] # expected[key]
       /\ GetIndex(store, key) \notin { NotFound, Panic }
       /\ GetIndex(working, key) = GetIndex(store, key)
       /\ working[GetIndex(working, key)] = Value(written[key])

\* ------------------------------------------------ claims: the replay cursor
\* C30: the cursor replay returns is the page after the one that holds the
\* highest LSN of the log, wrapping, whether the log has wrapped or not, so
\* the first write after the reopen does not go to the page with the most
\* recent records.
C30_CursorFollowsNewest ==
  [][ LET indexes == UNION { { file[p][i].index : i \in 1 .. Len(file[p]) } :
                               p \in DOMAIN file }
          newest == { p \in DOMAIN file :
                        \E i \in 1 .. Len(file[p]) :
                          file[p][i].index = Max(indexes) }
      IN  ( /\ crashes' = crashes + 1
            /\ ~ replayed'.read_error
            /\ indexes # {} ) =>
          \E p \in newest : cursor' = (p + 1) % MaxFileSize ]_vars

\* --------------------------------------- claims: the Page Cache, repeated get
\* C31: within one open transaction two get calls for the same page with no
\* insert of that transaction between them return the same result, whatever
\* other transactions, the I/O loop, the commit receiver, eviction and the
\* flusher do between them.
C31_RepeatableGet ==
  [][ \A tx \in TxIds, index \in Pages :
        ( /\ txState[tx] = "open"
          /\ txState'[tx] = "open"
          /\ txWrites'[tx] = txWrites[tx] ) =>
        WriterGetResult(tx, index)' = WriterGetResult(tx, index) ]_vars

\* ================================================================ PageLocker
\* PageLocker::fetch_read (lock.rs 30-50): the status it leaves and whether
\* the lock was granted (Ok(PageLock)) or refused (Err(rx), the sender
\* pushed to blocked).
FetchReadResult(st) ==
  CASE st.kind = "Released" -> [ status |-> Read(1), granted |-> TRUE ]
    [] st.kind = "Read" -> [ status |-> Read(st.count + 1), granted |-> TRUE ]
    [] OTHER -> [ status |-> st, granted |-> FALSE ]

\* fetch_write that looks only for a writer.
FetchWriteResult_AmongReaders(st) ==
  IF st.kind # "Write"
    THEN [ status |-> Write, granted |-> TRUE ]
    ELSE [ status |-> st, granted |-> FALSE ]

\* PageLocker::fetch_write (lock.rs 52-65).
FetchWriteResult(st) ==
  IF st.kind = "Released"
    THEN [ status |-> Write, granted |-> TRUE ]
    ELSE [ status |-> st, granted |-> FALSE ]

\* PageLocker::release (lock.rs 67-81): the status it leaves and the senders
\* it returns; Read(count) with count # 1 goes to Read(count - 1), with
\* checked_sub(1).unwrap_or(0) for a count of 0, and returns None.
ReleaseResult(st, waiters) ==
  IF st.kind = "Read" /\ st.count # 1
    THEN [ status |-> Read(IF st.count = 0 THEN 0 ELSE st.count - 1),
           blocked |-> waiters, handed |-> << >> ]
    ELSE [ status |-> Released, blocked |-> << >>, handed |-> waiters ]

\* A fetch by request r with result f: the lock is granted, or r waits on
\* the receiver of the sender pushed to blocked.
Fetch(r, mode, f) ==
  /\ holder[r] = "idle"
  /\ status' = f.status
  /\ IF f.granted
       THEN /\ holder' = [ holder EXCEPT ![r] = mode ]
            /\ UNCHANGED blocked
       ELSE /\ holder' = [ holder EXCEPT ![r] = "waiting" ]
            /\ blocked' = Append(blocked, r)
  /\ UNCHANGED handed
  /\ UNCHANGED << cacheVars, logVars, walVars, treeVars, finderVars >>

FetchRead(r) ==
  Fetch(r, "read", FetchReadResult(status))

FetchWrite(r) ==
  Fetch(r, "write", FetchWriteResult(status))

\* The PageLock of request r is dropped and the releaser calls release; the
\* waiters it returns are woken and will ask again.
Release(r) ==
  /\ holder[r] \in { "read", "write" }
  /\ LET res == ReleaseResult(status, blocked)
     IN  /\ status' = res.status
         /\ blocked' = res.blocked
         /\ handed' = res.handed
         /\ holder' = [ x \in 1 .. NumLockers |->
                          IF x = r THEN "idle"
                          ELSE IF \E i \in 1 .. Len(res.handed) : res.handed[i] = x
                            THEN "idle"
                          ELSE holder[x] ]
  /\ UNCHANGED << cacheVars, logVars, walVars, treeVars, finderVars >>

NextLock ==
  \/ \E r \in 1 .. NumLockers : FetchRead(r)
  \/ \E r \in 1 .. NumLockers : FetchWrite(r)
  \/ \E r \in 1 .. NumLockers : Release(r)

SpecLock ==
  InitWal /\ [][NextLock]_vars

\* C32: a write lock is never granted while a read or write lock is held and
\* a read lock never while a write lock is held; a refused request is
\* queued in `blocked`; the blocked waiters are handed out only by the
\* release that brings the status to Released.
C32_LockExclusion ==
  [][ /\ \A r \in 1 .. NumLockers :
           /\ (holder[r] = "idle" /\ holder'[r] = "write") =>
                \A x \in 1 .. NumLockers : holder[x] \notin { "read", "write" }
           /\ (holder[r] = "idle" /\ holder'[r] = "read") =>
                \A x \in 1 .. NumLockers : holder[x] # "write"
           /\ (holder[r] = "idle" /\ holder'[r] = "waiting") =>
                blocked' = Append(blocked, r)
      /\ (blocked' # blocked /\ Len(blocked') <= Len(blocked)) =>
           /\ status.kind # "Released"
           /\ status'.kind = "Released"
           /\ handed' = blocked
           /\ blocked' = << >> ]_vars

\* A writer refused while a reader held the lock was handed out by the
\* reader's release and then got the write lock.
C32_Witness ==
  /\ handed # << >>
  /\ \E i \in 1 .. Len(handed) : holder[handed[i]] = "write"

\* ------------------------------------------------- Finder: close, liveness
\* Finder::close (finder.rs 163-166): both channels are terminated; the
\* calls in flight, received by the batcher or not, return a channel-closed
\* error and the batcher stops.
Close ==
  /\ ~ closed
  /\ closed' = TRUE
  /\ replies' = [ w \in 1 .. NumWaiters |->
                    IF replies[w] = "pending" THEN "Err" ELSE replies[w] ]
  /\ batch_c' = << >>
  /\ wait' = << >>
  /\ UNCHANGED << executed, flushed, flushFailed, ioFailures, flushes >>
  /\ UNCHANGED << cacheVars, logVars, walVars, treeVars, lockVars >>

\* The batcher takes the next call when there is one; the file may fail any
\* command.
BatcherRuns ==
  \E writeOk \in BOOLEAN, flushOk \in BOOLEAN :
    ReceiveWithin(FALSE, writeOk, flushOk)

\* batch_delay elapses and the callback runs.
TimerRuns ==
  \E flushOk \in BOOLEAN : TimerWithin(FALSE, flushOk)

NextFinderLive ==
  \/ \E w \in 1 .. NumWaiters : BatchWrite(w)
  \/ BatcherRuns
  \/ TimerRuns
  \/ Close

\* The batcher, its timer and the I/O worker behind them are threads of
\* their own and keep running; clients call batch_write and close when they
\* like, and the file fails the commands it likes.
SpecFinderLive ==
  /\ InitWal
  /\ [][NextFinderLive]_vars
  /\ WF_vars(BatcherRuns)
  /\ WF_vars(TimerRuns)

\* C33: every batch_write call eventually returns, Ok or an error: also
\* when fewer than batch_size calls are made, when a Flush fails, and when
\* close is called while calls are waiting.
C33_BatchWriteReturns ==
  \A w \in 1 .. NumWaiters :
    (replies[w] = "pending") ~> (replies[w] \in { "Ok", "Err" })

\* ------------------------------------------------ claims: the LogBuffer size
RECURSIVE RecordsIn(_)
\* The number of records the LogBuffer map m holds.
RecordsIn(m) ==
  IF DOMAIN m = {} THEN 0
  ELSE LET t == CHOOSE x \in DOMAIN m : TRUE
       IN  Len(m[t]) + RecordsIn([ x \in DOMAIN m \ { t } |-> m[x] ])

\* C34: `size` equals the number of records held in `map`, and after append
\* or new_transaction returns Ok the buffer holds fewer than
\* max_buffer_size records.
C34_SizeTracksMap ==
  /\ [] (size = RecordsIn(map))
  /\ [][ \A c \in 1 .. NumClients :
           ( /\ client[c].pc \in { "new_len", "append_len", "new", "append" }
             /\ client'[c].pc = "open" ) =>
           size' < MaxBufferSize ]_vars

\* C34, amended: `size` equals the number of records held in `map` in every
\* state; an append or new_transaction that returns Ok without flushing
\* read a size below max_buffer_size, and one that flushed left the buffer
\* empty at its flush. What other threads buffer before the call returns is
\* not bounded.
C34_SizeTracksMapAtCheck ==
  /\ [] (size = RecordsIn(map))
  /\ [][ \A c \in 1 .. NumClients :
           /\ ( /\ client[c].pc \in { "new_len", "append_len" }
                /\ client'[c].pc = "open" ) =>
                size' < MaxBufferSize
           /\ ( /\ client[c].pc \in { "new_flush", "append_flush" }
                /\ client'[c].pc \in { "new_send", "append_send" } ) =>
                size' = 0 /\ map' = EmptyMap ]_vars

\* A commit found no records of its transaction in the buffer, a flush
\* having taken them, while the buffer holds records of another one.
C34_Witness ==
  /\ size > 0
  /\ \E c \in 1 .. NumClients :
       /\ client[c].pc = "commit"
       /\ \E i \in 1 .. Len(io_c) : io_c[i].done = c /\ io_c[i].taken = << >>

====
